---- MODULE Spec2Model ----
(***************************************************************************)
(* M3U Sentinel: the mirror-URL proxy endpoint of server.js over the two   *)
(* db.js variants found in the repository (the access_logs variant, whose  *)
(* active-device count is a live query over the access history, and the    *)
(* connected_devices variant, whose count reads the persistent session     *)
(* table maintained by registerDevice and cleanupExpiredDevices).          *)
(* Also: the playlist management API of server.js, the monitor endpoints   *)
(* and the two device classifiers of part_001, the active-connection count *)
(* of the JSON-file db (part_002), and the header injection of the relay.  *)
(***************************************************************************)
EXTENDS Integers, Sequences, FiniteSets, TLC

\* ------------------------------------------------------------------ bounds
NumRequests == 2      \* proxy requests in flight at once
NumCalls == 2         \* registerDevice calls in flight at once
MaxLog == 3           \* access_logs rows written in one behaviour of Spec
MaxLogDb == 1         \* the same in SpecDb, connected_devices variant
NumCreates == 2       \* POST /api/playlists requests in flight at once
MaxPlaylists == 3     \* playlists.id values drawn from the SERIAL
MaxMonitors == 2      \* monitors.id values drawn from the SERIAL
MaxDetections == 2    \* classifications of one signature in a behaviour
MaxFragments == 2     \* fragments a user-agent signature is made of
MaxPieces == 2        \* pieces an origin body has after its first token
MaxSent == 2          \* requests served in a behaviour of the response model
NumM3u == 2           \* /m3u/:id.m3u requests in flight at once
MaxUserLog == 2       \* access_logs entries the /m3u requests of a behaviour write
NumStreams == 1       \* /stream/:token requests in flight at once
MaxStats == 2         \* device_stats rows the /stream requests of a behaviour write
MaxMetrics == 3       \* checks the monitoring worker makes in a behaviour

ReqIds == 1..NumRequests
CallIds == 1..NumCalls
CreateIds == 1..NumCreates

\* ------------------------------------------------------- program constants
LOG_WINDOW_MINUTES == 15      \* INTERVAL '15 minutes' of the access_logs variant
DEVICE_EXPIRY_MINUTES == 30   \* const DEVICE_EXPIRY_MINUTES

\* --------------------------------------------------------------- inputs
\* Client address tokens (req.ip) seen by the endpoint.
Clients == {"a", "b", "c"}
\* Mirror identifiers a request may carry: one issued, one never issued.
MirrorIds == {"m1", "zz"}
\* max_devices values of the stored playlist (within the CHECK 1..10).
MaxDevicesChoices == {1, 2}
\* The two db.js variants.
LogsVariant == "access_logs"
SessionsVariant == "connected_devices"
Variants == {LogsVariant, SessionsVariant}

NoRow == [id |-> 0]
NoResp == [kind |-> "none"]
NoResult == [success |-> FALSE, isNew |-> FALSE, message |-> "none"]

VARIABLES
  now,                \* NOW() / CURRENT_TIMESTAMP, in minutes
  dbVariant,          \* which db.js the server requires
  playlists,          \* table playlists
  access_logs,        \* table access_logs, in insertion order
  connected_devices,  \* table connected_devices
  nextDeviceId,       \* SERIAL of connected_devices.id
  req,                \* proxy requests: GET /get/:mirror_id.m3u
  call,               \* registerDevice calls
  create,             \* management requests: POST /api/playlists
  nextPlaylistId,     \* SERIAL of playlists.id
  issued,             \* identifiers handed out in creation responses
  monitors,           \* table monitors (part_001)
  nextMonitorId,      \* SERIAL of monitors.id
  userAgent,          \* the user-agent header of the request classified
  useragent,          \* req.useragent of that request (express-useragent)
  deviceTypes,        \* results of the detectDeviceType calls made so far
  inlineTypes,        \* deviceType of the /m3u/:id.m3u detections so far
  body,               \* response.data of the origin fetch
  relayed,            \* the body sent on the success path
  origin,             \* what axios.get of the request served comes back with
  sent,               \* responses of GET /get/:mirror_id.m3u, as sent
  users,              \* table users with its JSONB access_logs (part_002)
  m3u,                \* proxy requests: GET /m3u/:id.m3u (part_001)
  device_stats,       \* table device_stats (part_001)
  stream,             \* proxy requests: GET /stream/:token (part_001)
  metrics             \* table metrics (part_001), in insertion order

\* The management state, the classifier state and the relay state.
mgmtVars == <<create, nextPlaylistId, issued, monitors, nextMonitorId>>
classifyVars == <<userAgent, useragent, deviceTypes, inlineTypes>>
relayVars == <<body, relayed>>
handlerVars == <<origin, sent, users, m3u, device_stats, stream, metrics>>
extVars == <<mgmtVars, classifyVars, relayVars, handlerVars>>

vars == <<now, dbVariant, playlists, access_logs, connected_devices,
          nextDeviceId, req, call, extVars>>

\* The trailing window of the variant in use, in minutes.
Window == IF dbVariant = LogsVariant THEN LOG_WINDOW_MINUTES
                                     ELSE DEVICE_EXPIRY_MINUTES

\* Instants (minutes) at which the clock is observed: the start, the edge of
\* the window and one minute past it.
Instants == {0, Window, Window + 1}

\* ------------------------------------------------------------ db queries

\* playlists row with the given mirror_id (WHERE p.mirror_id = $1), or NoRow.
PlaylistByMirror(m) ==
  IF \E p \in playlists : p.mirror_id = m
    THEN CHOOSE p \in playlists : p.mirror_id = m
    ELSE NoRow

\* REFERENCES playlists(id): the foreign key of both child tables.
PlaylistExists(pid) == \E p \in playlists : p.id = pid

LogRows == {access_logs[i] : i \in 1..Len(access_logs)}

\* ActiveDevicesLogs without DISTINCT: every access in the window counts.
ActiveDevicesLogsAllRows(pid) ==
  Cardinality({i \in 1..Len(access_logs) :
     /\ access_logs[i].playlist_id = pid
     /\ access_logs[i].accessed_at > now - LOG_WINDOW_MINUTES})

\* COUNT(DISTINCT CASE WHEN a.accessed_at > NOW() - INTERVAL '15 minutes'
\*                     THEN a.ip_address END)
ActiveDevicesLogs(pid) ==
  Cardinality({l.ip_address : l \in
     {x \in LogRows : x.playlist_id = pid
                      /\ x.accessed_at > now - LOG_WINDOW_MINUTES}})

\* COUNT(CASE WHEN d.is_active = true THEN 1 END) over a devices table.
CountActive(devices, pid) ==
  Cardinality({d \in devices : d.playlist_id = pid /\ d.is_active})

ActiveDevicesSessions(pid) == CountActive(connected_devices, pid)

\* The active_devices column of getPlaylistByMirrorId's SELECT.
ActiveDevices(pid) ==
  IF dbVariant = LogsVariant THEN ActiveDevicesLogs(pid)
                             ELSE ActiveDevicesSessions(pid)

\* A sweep that deletes the expired sessions instead of flagging them.
SweptDeletes(devices) ==
  {d \in devices : ~(d.is_active /\ d.last_heartbeat_at < now - DEVICE_EXPIRY_MINUTES)}

\* UPDATE connected_devices SET is_active = false
\*  WHERE is_active = true AND last_heartbeat_at < NOW() - INTERVAL '30 minutes'
Swept(devices) ==
  {IF d.is_active /\ d.last_heartbeat_at < now - DEVICE_EXPIRY_MINUTES
     THEN [d EXCEPT !.is_active = FALSE] ELSE d : d \in devices}

\* SELECT id, is_active FROM connected_devices
\*  WHERE playlist_id = $1 AND ip_address = $2
DeviceRows(pid, ip) ==
  {d \in connected_devices : d.playlist_id = pid /\ d.ip_address = ip}

\* connected_devices without its UNIQUE constraint.
NoUniqueConstraint(pid, ip) == FALSE

\* The UNIQUE(playlist_id, ip_address) constraint of connected_devices.
UniqueViolation(pid, ip) == DeviceRows(pid, ip) # {}

\* Heartbeat that leaves is_active as stored.
HeartbeatKeepsFlag(d) == [d EXCEPT !.last_heartbeat_at = now]

\* UPDATE connected_devices SET last_heartbeat_at = CURRENT_TIMESTAMP,
\*   is_active = true WHERE playlist_id = $1 AND ip_address = $2
Heartbeat(d) == [d EXCEPT !.last_heartbeat_at = now, !.is_active = TRUE]

\* INSERT INTO connected_devices (playlist_id, ip_address, user_agent, is_active)
NewDevice(pid, ip) ==
  [id |-> nextDeviceId, playlist_id |-> pid, ip_address |-> ip,
   first_connected_at |-> now, last_heartbeat_at |-> now, is_active |-> TRUE]

\* INSERT INTO access_logs (playlist_id, ip_address, user_agent)
NewLog(pid, ip, ua) ==
  [playlist_id |-> pid, ip_address |-> ip, user_agent |-> ua, accessed_at |-> now]

\* req.headers['user-agent'] || 'unknown' of a request without the header.
NoUserAgent == "unknown"

\* ------------------------------------------- the JSON-file db (part_002)

\* const thirtyMinutesAgo = new Date(Date.now() - 30 * 60 * 1000)
THIRTY_MINUTES == 30

\* calculateActiveConnections(accessLogs): the unique ips of the entries
\* with logDate >= thirtyMinutesAgo.
calculateActiveConnections(accessLogs) ==
  Cardinality({l.ip : l \in {x \in accessLogs :
                               x.date >= now - THIRTY_MINUTES}})

\* --------------------------------------------------- reports (db.js)

\* getDeviceAnalytics, active_count: in the access_logs variant
\*   COUNT(DISTINCT ip_address) ... accessed_at > NOW() - INTERVAL '15 minutes'
\* and in the connected_devices variant
\*   COUNT(*) FROM connected_devices WHERE playlist_id = $1 AND is_active = true
ANALYTICS_WINDOW_MINUTES == 15
\* total_registered_devices of the same report: every session row.
AnalyticsTotalDevices(pid) ==
  Cardinality({d \in connected_devices : d.playlist_id = pid})

\* active_count read without the is_active condition.
AnalyticsActiveIgnoresFlag(pid) == AnalyticsTotalDevices(pid)

AnalyticsActiveDevices(pid) ==
  IF dbVariant = LogsVariant
    THEN Cardinality({l.ip_address : l \in
           {x \in LogRows : x.playlist_id = pid
                            /\ x.accessed_at > now - ANALYTICS_WINDOW_MINUTES}})
    ELSE Cardinality({d \in connected_devices :
                        d.playlist_id = pid /\ d.is_active = TRUE})

\* getAllPlaylists, the active_devices column of the row of a playlist.
LIST_WINDOW_MINUTES == 15
ListActiveDevices(pid) ==
  IF dbVariant = LogsVariant
    THEN Cardinality({l.ip_address : l \in
           {x \in LogRows : x.playlist_id = pid
                            /\ x.accessed_at > now - LIST_WINDOW_MINUTES}})
    ELSE CountActive(connected_devices, pid)

\* ----------------------------------------------------------------- Init

IdleReq == [pc |-> "idle", ip |-> "a", mirror |-> "m1", playlist |-> NoRow,
            active |-> 0, fetches |-> 0, resp |-> NoResp]
IdleCall == [pc |-> "idle", ip |-> "a", pid |-> 1, result |-> NoResult]

NoCreated == [success |-> FALSE, status |-> 0, id |-> 0, mirror_id |-> ""]
IdleCreate == [pc |-> "idle", mirror_id |-> "", max_devices |-> 1,
               resp |-> NoCreated]

\* No management request in flight, no monitor stored.
MgmtIdle ==
  /\ create = [c \in CreateIds |-> IdleCreate]
  /\ issued = {}
  /\ monitors = {}
  /\ nextMonitorId = 1

\* No request classified yet.
ClassifyIdle ==
  /\ userAgent = ""
  /\ useragent = [isTablet |-> FALSE, isMobile |-> FALSE]
  /\ deviceTypes = <<>>
  /\ inlineTypes = <<>>

\* No origin body fetched yet.
RelayIdle ==
  /\ body = ""
  /\ relayed = <<>>

\* Slots of the /m3u/:id.m3u and of the /stream/:token requests.
M3uIds == 1..NumM3u
StreamIds == 1..NumStreams

IdleM3u == [pc |-> "idle", id |-> 1, ip |-> "a", ua |-> "", device |-> "",
            logs |-> <<>>, fetches |-> 0, sent |-> <<>>]

IdleStream == [pc |-> "idle", token |-> "", ua |-> "", monitor |-> 0,
               fetches |-> 0, sent |-> <<>>]

\* No response sent, no user, no device statistics, no request in flight.
HandlerIdle ==
  /\ origin = [kind |-> "none", message |-> ""]
  /\ sent = <<>>
  /\ users = {}
  /\ m3u = [r \in M3uIds |-> IdleM3u]
  /\ device_stats = <<>>
  /\ stream = [r \in StreamIds |-> IdleStream]
  /\ metrics = <<>>

\* Empty child tables, no request and no call in flight.
DbIdle ==
  /\ now = 0
  /\ dbVariant \in Variants
  /\ access_logs = <<>>
  /\ connected_devices = {}
  /\ nextDeviceId = 1
  /\ req = [r \in ReqIds |-> IdleReq]
  /\ call = [k \in CallIds |-> IdleCall]

\* One stored playlist, created before the server was started.
Init ==
  /\ DbIdle
  /\ \E m \in MaxDevicesChoices :
       playlists = {[id |-> 1, mirror_id |-> "m1", max_devices |-> m]}
  /\ nextPlaylistId = 2
  /\ MgmtIdle
  /\ ClassifyIdle
  /\ RelayIdle
  /\ HandlerIdle

\* ----------------------------------------------------------------- clock

Tick ==
  /\ \E t \in Instants : t > now /\ now' = t
  /\ UNCHANGED <<dbVariant, playlists, access_logs, connected_devices,
                 nextDeviceId, req, call>>
  /\ UNCHANGED extVars

\* ------------------------------------------- cleanupExpiredDevices (db.js)

\* The sweep either runs, or its query throws and the error is only logged.
CleanupOutcomes == {Swept(connected_devices), connected_devices}

\* ------------------------------------- GET /get/:mirror_id.m3u (server.js)

InFlight(q) == q.pc \notin {"idle", "done"}

\* A request is served in the lowest free slot; the requests of one
\* behaviour write at most budget access_logs rows.
StartRequest(r, ip, m, budget) ==
  /\ ~InFlight(req[r])
  /\ \A s \in ReqIds : s < r => InFlight(req[s])
  /\ Len(access_logs) + Cardinality({s \in ReqIds : InFlight(req[s])}) < budget
  /\ req' = [req EXCEPT ![r] = [IdleReq EXCEPT
                !.pc = IF dbVariant = SessionsVariant THEN "cleanup" ELSE "select",
                !.ip = ip, !.mirror = m]]
  /\ UNCHANGED <<now, dbVariant, playlists, access_logs, connected_devices,
                 nextDeviceId, call>>
  /\ UNCHANGED extVars

\* getPlaylistByMirrorId, first await: cleanupExpiredDevices().
LookupCleanup(r) ==
  /\ req[r].pc = "cleanup"
  /\ connected_devices' \in CleanupOutcomes
  /\ req' = [req EXCEPT ![r].pc = "select"]
  /\ UNCHANGED <<now, dbVariant, playlists, access_logs, nextDeviceId, call>>
  /\ UNCHANGED extVars

\* Response of the handler for each terminal path.
Response(kind, status, max) == [kind |-> kind, status |-> status, max |-> max]

\* A finished request: its slot keeps the client, the response and the
\* number of origin fetches it made.
Done(q, resp) == [IdleReq EXCEPT !.pc = "done", !.ip = q.ip,
                                 !.fetches = q.fetches, !.resp = resp]

\* AfterLookup with the origin fetched before the cap check.
AfterLookupFetchFirst(q, p, active) ==
  IF p = NoRow
    THEN Done(q, Response("NotFound", 404, 0))
  ELSE IF active >= p.max_devices
    THEN Done([q EXCEPT !.fetches = @ + 1],
              Response("LimitExceeded", 403, p.max_devices))
  ELSE [q EXCEPT !.pc = "log", !.playlist = p, !.active = active]

\* AfterLookup with the origin fetched before the not-found check.
AfterLookupFetchUnknown(q, p, active) ==
  IF p = NoRow
    THEN Done([q EXCEPT !.fetches = @ + 1], Response("NotFound", 404, 0))
  ELSE IF active >= p.max_devices
    THEN Done(q, Response("LimitExceeded", 403, p.max_devices))
  ELSE [q EXCEPT !.pc = "log", !.playlist = p, !.active = active]

\* The handler from the playlist row returned by the lookup up to its next
\* await: 404 when there is no row, 403 when activeDevices >= maxDevices,
\* otherwise on to db.logAccess.
AfterLookup(q, p, active) ==
  IF p = NoRow
    THEN Done(q, Response("NotFound", 404, 0))
  ELSE IF active >= p.max_devices
    THEN Done(q, Response("LimitExceeded", 403, p.max_devices))
  ELSE [q EXCEPT !.pc = "log", !.playlist = p, !.active = active]

\* LookupSelect with the access logged before the cap is checked.
LookupSelectLogsFirst(r) ==
  /\ req[r].pc = "select"
  /\ LET p == PlaylistByMirror(req[r].mirror)
         active == IF p = NoRow THEN 0 ELSE ActiveDevices(p.id)
     IN /\ req' = [req EXCEPT ![r] = AfterLookup(req[r], p, active)]
        /\ access_logs' = IF p = NoRow THEN access_logs
                          ELSE Append(access_logs, NewLog(p.id, req[r].ip, NoUserAgent))
  /\ UNCHANGED <<now, dbVariant, playlists, connected_devices, nextDeviceId, call>>
  /\ UNCHANGED extVars

\* getPlaylistByMirrorId's SELECT and the synchronous checks that follow it.
LookupSelect(r) ==
  /\ req[r].pc = "select"
  /\ LET p == PlaylistByMirror(req[r].mirror)
         active == IF p = NoRow THEN 0 ELSE ActiveDevices(p.id)
     IN req' = [req EXCEPT ![r] = AfterLookup(req[r], p, active)]
  /\ UNCHANGED <<now, dbVariant, playlists, access_logs, connected_devices,
                 nextDeviceId, call>>
  /\ UNCHANGED extVars

\* await db.logAccess(playlist.id, clientIp, userAgent); a foreign-key
\* violation (the playlist was deleted meanwhile) lands in the catch block.
LogAccess(r) ==
  /\ req[r].pc = "log"
  /\ IF PlaylistExists(req[r].playlist.id)
       THEN /\ access_logs' = Append(access_logs, NewLog(req[r].playlist.id, req[r].ip, NoUserAgent))
            /\ req' = [req EXCEPT ![r].pc = "fetch"]
       ELSE /\ access_logs' = access_logs
            /\ req' = [req EXCEPT ![r] = Done(req[r], Response("Error", 200, 0))]
  /\ UNCHANGED <<now, dbVariant, playlists, connected_devices, nextDeviceId, call>>
  /\ UNCHANGED extVars

\* What axios.get can come back with.
FetchOutcomes == {"text", "empty", "error"}

\* The response built from the outcome of the origin fetch.
FetchResponse(outcome) ==
  CASE outcome = "text" -> Response("Ok", 200, 0)
    [] outcome = "empty" -> Response("Invalid", 500, 0)
    [] OTHER -> Response("Error", 200, 0)

\* AfterFetch with one more attempt after a failed fetch.
AfterFetchRetry(q, outcome) ==
  IF outcome = "error" /\ q.fetches < 2
    THEN [q EXCEPT !.fetches = @ + 1]
    ELSE Done([q EXCEPT !.fetches = @ + 1], FetchResponse(outcome))

\* The handler from the call of axios.get to its response: one outbound
\* request, then the content check, the success path or the catch block.
AfterFetch(q, outcome) ==
  Done([q EXCEPT !.fetches = @ + 1], FetchResponse(outcome))

\* await axios.get(playlist.original_url, ...) and the response that follows.
Fetch(r, outcome) ==
  /\ req[r].pc = "fetch"
  /\ req' = [req EXCEPT ![r] = AfterFetch(req[r], outcome)]
  /\ UNCHANGED <<now, dbVariant, playlists, access_logs, connected_devices,
                 nextDeviceId, call>>
  /\ UNCHANGED extVars

\* ------------------------------------------------- registerDevice (db.js)

CallInFlight(c) == c.pc \notin {"idle", "done"}

Result(success, isNew, message) ==
  [success |-> success, isNew |-> isNew, message |-> message]

\* registerDevice exists in the connected_devices variant only; a call
\* takes the lowest free slot.
StartRegister(k, pid, ip) ==
  /\ dbVariant = SessionsVariant
  /\ ~CallInFlight(call[k])
  /\ \A s \in CallIds : s < k => CallInFlight(call[s])
  /\ call' = [call EXCEPT ![k] = [IdleCall EXCEPT !.pc = "cleanup",
                                                  !.pid = pid, !.ip = ip]]
  /\ UNCHANGED <<now, dbVariant, playlists, access_logs, connected_devices,
                 nextDeviceId, req>>
  /\ UNCHANGED extVars

\* await cleanupExpiredDevices()
RegisterCleanup(k) ==
  /\ call[k].pc = "cleanup"
  /\ connected_devices' \in CleanupOutcomes
  /\ call' = [call EXCEPT ![k].pc = "check"]
  /\ UNCHANGED <<now, dbVariant, playlists, access_logs, nextDeviceId, req>>
  /\ UNCHANGED extVars

\* await pool.query(checkQuery): the branch taken on checkResult.rows.length.
RegisterCheck(k) ==
  /\ call[k].pc = "check"
  /\ call' = [call EXCEPT ![k].pc =
       IF DeviceRows(call[k].pid, call[k].ip) # {} THEN "update" ELSE "insert"]
  /\ UNCHANGED <<now, dbVariant, playlists, access_logs, connected_devices,
                 nextDeviceId, req>>
  /\ UNCHANGED extVars

\* await pool.query(updateQuery): refresh the heartbeat of the rows matched.
RegisterUpdate(k) ==
  /\ call[k].pc = "update"
  /\ connected_devices' =
       {IF d \in DeviceRows(call[k].pid, call[k].ip) THEN Heartbeat(d) ELSE d :
          d \in connected_devices}
  /\ call' = [call EXCEPT ![k].pc = "done",
                          ![k].result = Result(TRUE, FALSE, "Device heartbeat updated")]
  /\ UNCHANGED <<now, dbVariant, playlists, access_logs, nextDeviceId, req>>
  /\ UNCHANGED extVars

\* await pool.query(insertQuery): a unique or foreign-key violation throws
\* and the catch block returns success = false.
RegisterInsert(k) ==
  /\ call[k].pc = "insert"
  /\ IF UniqueViolation(call[k].pid, call[k].ip) \/ ~PlaylistExists(call[k].pid)
       THEN /\ UNCHANGED <<connected_devices, nextDeviceId>>
            /\ call' = [call EXCEPT ![k].pc = "done",
                                    ![k].result = Result(FALSE, FALSE,
                                       IF UniqueViolation(call[k].pid, call[k].ip)
                                         THEN "duplicate key" ELSE "foreign key")]
       ELSE /\ connected_devices' =
                 connected_devices \cup {NewDevice(call[k].pid, call[k].ip)}
            /\ nextDeviceId' = nextDeviceId + 1
            /\ call' = [call EXCEPT ![k].pc = "done",
                                    ![k].result = Result(TRUE, TRUE, "New device registered")]
  /\ UNCHANGED <<now, dbVariant, playlists, access_logs, req>>
  /\ UNCHANGED extVars

\* ------------------------------------------------- deletePlaylist (db.js)

\* deletePlaylist on child tables declared without ON DELETE CASCADE.
DeletePlaylistNoCascade(pid) ==
  /\ PlaylistExists(pid)
  /\ playlists' = {p \in playlists : p.id # pid}
  /\ UNCHANGED <<now, dbVariant, access_logs, connected_devices, nextDeviceId,
                 req, call>>
  /\ UNCHANGED extVars

\* DELETE FROM playlists WHERE id = $1, with ON DELETE CASCADE on both
\* child tables.
DeletePlaylist(pid) ==
  /\ PlaylistExists(pid)
  /\ playlists' = {p \in playlists : p.id # pid}
  /\ access_logs' = SelectSeq(access_logs, LAMBDA l : l.playlist_id # pid)
  /\ connected_devices' = {d \in connected_devices : d.playlist_id # pid}
  /\ UNCHANGED <<now, dbVariant, nextDeviceId, req, call>>
  /\ UNCHANGED extVars

PlaylistIds == {1}

\* ------------------------------ getAllPlaylists, getDeviceAnalytics (db.js)

\* Both reports of the connected_devices variant first await
\* cleanupExpiredDevices() and then only read.
GetAllPlaylists ==
  /\ dbVariant = SessionsVariant
  /\ connected_devices' \in CleanupOutcomes
  /\ UNCHANGED <<now, dbVariant, playlists, access_logs, nextDeviceId, req, call>>
  /\ UNCHANGED extVars

GetDeviceAnalytics(pid) ==
  /\ dbVariant = SessionsVariant
  /\ PlaylistExists(pid)
  /\ connected_devices' \in CleanupOutcomes
  /\ UNCHANGED <<now, dbVariant, playlists, access_logs, nextDeviceId, req, call>>
  /\ UNCHANGED extVars

\* ----------------------------------------- POST /api/playlists (server.js)

\* Values crypto.randomBytes(4).toString('hex') can return.
MirrorPool == {"0a1b2c3d", "deadbeef"}

MgmtPlaylistIds == 1..MaxPlaylists

\* The UNIQUE constraint of playlists.mirror_id.
MirrorTaken(m) == \E p \in playlists : p.mirror_id = m

CreateInFlight(c) == c.pc \notin {"idle", "done"}

\* The handler up to its await: the body is validated, mirrorId is drawn
\* and db.createPlaylist is called with it. A request takes the lowest
\* free slot.
StartCreate(c, m, d) ==
  /\ ~CreateInFlight(create[c])
  /\ \A s \in CreateIds : s < c => CreateInFlight(create[s])
  /\ nextPlaylistId + Cardinality({s \in CreateIds : CreateInFlight(create[s])})
       <= MaxPlaylists
  /\ create' = [create EXCEPT ![c] = [IdleCreate EXCEPT !.pc = "insert",
                                        !.mirror_id = m, !.max_devices = d]]
  /\ UNCHANGED <<now, dbVariant, playlists, access_logs, connected_devices,
                 nextDeviceId, req, call>>
  /\ UNCHANGED <<nextPlaylistId, issued, monitors, nextMonitorId>>
  /\ UNCHANGED <<classifyVars, relayVars>>
  /\ UNCHANGED handlerVars

\* max_devices: max_devices || 3 in both handlers; 0 stands for every falsy
\* value of the body, a missing one included.
DEFAULT_MAX_DEVICES == 3
OrDefault(v) == IF v = 0 THEN DEFAULT_MAX_DEVICES ELSE v

\* A table without the CHECK constraint on max_devices.
CheckMaxDevicesNone(v) == TRUE

\* CHECK (max_devices >= 1 AND max_devices <= 10)
MAX_DEVICES_LOW == 1
MAX_DEVICES_HIGH == 10
CheckMaxDevices(v) == v >= MAX_DEVICES_LOW /\ v <= MAX_DEVICES_HIGH

\* max_devices values of the request bodies.
RequestedMaxDevices == {-1, 0, 1, 2, 10, 11}

\* What the handler sends once createPlaylist has returned or thrown.
Created(row) == [success |-> TRUE, status |-> 200, id |-> row.id,
                 mirror_id |-> row.mirror_id]
CreateFailed == [success |-> FALSE, status |-> 500, id |-> 0, mirror_id |-> ""]

\* createPlaylist's INSERT ... RETURNING *: the SERIAL is drawn, then a
\* taken mirror_id or a max_devices outside the CHECK violates its
\* constraint, the query throws and the
\* handler's catch block answers 500; otherwise the row is stored and
\* returned to the caller.
CreateInsert(c) ==
  /\ create[c].pc = "insert"
  /\ nextPlaylistId' = nextPlaylistId + 1
  /\ IF MirrorTaken(create[c].mirror_id)
          \/ ~CheckMaxDevices(OrDefault(create[c].max_devices))
       THEN /\ UNCHANGED <<playlists, issued>>
            /\ create' = [create EXCEPT ![c].pc = "done", ![c].resp = CreateFailed]
       ELSE LET row == [id |-> nextPlaylistId, mirror_id |-> create[c].mirror_id,
                        max_devices |-> OrDefault(create[c].max_devices)]
            IN /\ playlists' = playlists \cup {row}
               /\ issued' = issued \cup
                    {[kind |-> "playlist", id |-> row.id, url |-> row.mirror_id]}
               /\ create' = [create EXCEPT ![c].pc = "done", ![c].resp = Created(row)]
  /\ UNCHANGED <<now, dbVariant, access_logs, connected_devices,
                 nextDeviceId, req, call>>
  /\ UNCHANGED <<monitors, nextMonitorId, classifyVars, relayVars>>
  /\ UNCHANGED handlerVars

\* ------------------------------------- PUT /api/playlists/:id (server.js)

\* updatePlaylist: UPDATE playlists SET name, identity_num, phone,
\* original_url, max_devices, updated_at WHERE id = $6; of the columns
\* modelled only max_devices is written.
UpdatePlaylist(pid, d) ==
  /\ PlaylistExists(pid)
  /\ playlists' = IF CheckMaxDevices(OrDefault(d))
                    THEN {IF p.id = pid THEN [p EXCEPT !.max_devices = OrDefault(d)]
                                        ELSE p : p \in playlists}
                    ELSE playlists
  /\ UNCHANGED <<now, dbVariant, access_logs, connected_devices,
                 nextDeviceId, req, call>>
  /\ UNCHANGED extVars

\* ------------------------------------------------ monitors (part_001)

\* Values of Math.random().toString(36).substring(2) + Date.now().toString(36).
TokenPool == {"k3x9q1lq2w8z0", "p7m2d4lq2w8z1"}

MonitorIds == 1..MaxMonitors

\* `https://${req.get('host')}/stream/${token}.m3u`
ProxyUrl(token) == "https://host/stream/" \o token \o ".m3u"

\* POST /api/monitors: INSERT INTO monitors (..., proxy_url, ...) RETURNING *,
\* is_active DEFAULT 1; the row, proxy_url included, is the response.
CreateMonitor(token) ==
  /\ nextMonitorId <= MaxMonitors
  /\ monitors' = monitors \cup
       {[id |-> nextMonitorId, proxy_url |-> ProxyUrl(token), is_active |-> 1]}
  /\ issued' = issued \cup
       {[kind |-> "monitor", id |-> nextMonitorId, url |-> ProxyUrl(token)]}
  /\ nextMonitorId' = nextMonitorId + 1
  /\ UNCHANGED <<now, dbVariant, playlists, access_logs, connected_devices,
                 nextDeviceId, req, call>>
  /\ UNCHANGED <<create, nextPlaylistId, classifyVars, relayVars>>
  /\ UNCHANGED handlerVars

MonitorExists(id) == \E m \in monitors : m.id = id

\* POST /api/monitors/:id/toggle: is_active = 1 becomes 0, anything else 1.
ToggleMonitor(id) ==
  /\ MonitorExists(id)
  /\ monitors' = {IF m.id = id
                    THEN [m EXCEPT !.is_active = IF m.is_active = 1 THEN 0 ELSE 1]
                    ELSE m : m \in monitors}
  /\ UNCHANGED <<now, dbVariant, playlists, access_logs, connected_devices,
                 nextDeviceId, req, call>>
  /\ UNCHANGED <<create, nextPlaylistId, issued, nextMonitorId>>
  /\ UNCHANGED <<classifyVars, relayVars>>
  /\ UNCHANGED handlerVars

\* POST /api/monitors/:id/regenerate-proxy:
\* UPDATE monitors SET proxy_url = $1 WHERE id = $2 with a fresh token.
RegenerateProxy(id, token) ==
  /\ MonitorExists(id)
  /\ monitors' = {IF m.id = id THEN [m EXCEPT !.proxy_url = ProxyUrl(token)]
                               ELSE m : m \in monitors}
  /\ UNCHANGED <<now, dbVariant, playlists, access_logs, connected_devices,
                 nextDeviceId, req, call>>
  /\ UNCHANGED <<create, nextPlaylistId, issued, nextMonitorId>>
  /\ UNCHANGED <<classifyVars, relayVars>>
  /\ UNCHANGED handlerVars

\* DELETE /api/monitors/:id: DELETE FROM metrics, FROM device_stats and
\* FROM monitors WHERE (monitor_)id = $1.
DeleteMonitor(id) ==
  /\ MonitorExists(id)
  /\ monitors' = {m \in monitors : m.id # id}
  /\ device_stats' = SelectSeq(device_stats, LAMBDA d : d.monitor_id # id)
  /\ metrics' = SelectSeq(metrics, LAMBDA x : x.monitor_id # id)
  /\ UNCHANGED <<now, dbVariant, playlists, access_logs, connected_devices,
                 nextDeviceId, req, call>>
  /\ UNCHANGED <<create, nextPlaylistId, issued, nextMonitorId>>
  /\ UNCHANGED <<classifyVars, relayVars>>
  /\ UNCHANGED <<origin, sent, users, m3u, stream>>

\* ------------------------------------------------------------- strings

\* String.prototype.includes(p); RegExp.test of a literal alternative.
Includes(s, p) ==
  \E i \in 1..(Len(s) - Len(p) + 1) : SubSeq(s, i, i + Len(p) - 1) = p

\* RegExp.test of an alternation of literals.
TestAny(s, literals) == \E p \in literals : Includes(s, p)

\* RegExp.test of /.p/: any character, then the literal p.
TestDot(s, p) ==
  \E i \in 2..(Len(s) - Len(p) + 1) : SubSeq(s, i, i + Len(p) - 1) = p

\* RegExp.test of /p.*q/: the literal p, later the literal q.
TestThen(s, p, q) ==
  \E i \in 1..(Len(s) - Len(p) + 1) :
     /\ SubSeq(s, i, i + Len(p) - 1) = p
     /\ Includes(SubSeq(s, i + Len(p), Len(s)), q)

UpperLetters == "ABCDEFGHIJKLMNOPQRSTUVWXYZ"
LowerLetters == "abcdefghijklmnopqrstuvwxyz"

LowerChar(c) ==
  IF \E i \in 1..Len(UpperLetters) : SubSeq(UpperLetters, i, i) = c
    THEN LET i == CHOOSE k \in 1..Len(UpperLetters) : SubSeq(UpperLetters, k, k) = c
         IN SubSeq(LowerLetters, i, i)
    ELSE c

\* String.prototype.toLowerCase()
RECURSIVE toLowerCase(_)
toLowerCase(s) ==
  IF s = "" THEN "" ELSE LowerChar(SubSeq(s, 1, 1)) \o toLowerCase(Tail(s))

\* ----------------------------------------- detectDeviceType (part_001)

\* The four regular expressions of detectDeviceType, tested on the
\* lower-cased signature.
TvTest(ua) ==
  TestAny(ua, {"tv", "smarttv", "googletv", "appletv", "roku", "firetv",
               "chromecast", "android tv", "netcast", "nettv", "hbbtv",
               "ce-html", "xbmc", "playstation", "nsd", "netfront", "boxee",
               "kylo", "sonytv", "bravo", "polestar"})

TabletTest(ua) ==
  \/ TestAny(ua, {"tablet", "ipad", "tab", "kindle", "nexus 7", "xoom",
                  "transformer", "slider", "m1", "101ml", "101g2", "101tc",
                  "sm-t", "sgp", "gt-p", "sm-p", "android 3", "playbook"})
  \/ TestDot(ua, "2 7")
  \/ TestDot(ua, "3 7")

MobileTest(ua) ==
  \/ TestAny(ua, {"mobile", "iphone", "ipod", "blackberry", "opera mini",
                  "opera mobi", "windows phone", "symbian", "series60",
                  "windows ce", "palm", "minimo", "netfront", "ucweb", "bolt",
                  "iris", "3g_t", "windows mobile", "zte", "meego", "huawei"})
  \/ TestThen(ua, "android", "mobile")

PcTest(ua) ==
  TestAny(ua, {"windows", "macintosh", "linux", "x11", "unix", "cros", "chrome"})

\* detectDeviceType with the tablet test made before the TV test.
detectDeviceTypeTabletFirst(userAgentArg) ==
  IF userAgentArg = "" THEN "unknown"
  ELSE LET ua == toLowerCase(userAgentArg)
       IN IF TabletTest(ua) THEN "tablet"
          ELSE IF TvTest(ua) THEN "tv"
          ELSE IF MobileTest(ua) THEN "mobile"
          ELSE IF PcTest(ua) THEN "pc"
          ELSE "unknown"

\* detectDeviceType answering by the clock instead of the signature.
detectDeviceTypeByClock(userAgentArg) == IF now = 0 THEN "pc" ELSE "unknown"

\* detectDeviceType(userAgent)
detectDeviceType(userAgentArg) ==
  IF userAgentArg = "" THEN "unknown"
  ELSE LET ua == toLowerCase(userAgentArg)
       IN IF TvTest(ua) THEN "tv"
          ELSE IF TabletTest(ua) THEN "tablet"
          ELSE IF MobileTest(ua) THEN "mobile"
          ELSE IF PcTest(ua) THEN "pc"
          ELSE "unknown"

\* ----------------- device detection of GET /m3u/:id.m3u (part_001)

\* The /i regular expressions of the handler, as tests on the lower-cased
\* signature.
InlineTvTest(ua) ==
  TestAny(toLowerCase(ua), {"smart-tv", "smarttv", "googletv", "appletv", "roku",
                            "chromecast", "firetv", "webos", "netcast", "tizen",
                            "hbbtv"})

InlineTabletTest(ua, ug) ==
  \/ TestAny(toLowerCase(ua), {"tablet", "ipad", "playbook", "silk"})
  \/ ug.isTablet

InlineMobileTest(ua, ug) ==
  \/ TestAny(toLowerCase(ua), {"mobile", "iphone", "ipod", "android",
                               "blackberry", "windows phone"})
  \/ ug.isMobile

\* The tests of the final else branch, which only pick deviceName.
InlinePcTest(ua) == TestAny(toLowerCase(ua), {"windows", "mac", "linux"})

\* deviceType after the if / else-if chain; it starts as 'PC'.
InlineDeviceType(ua, ug) ==
  IF InlineTvTest(ua) THEN "TV"
  ELSE IF InlineTabletTest(ua, ug) THEN "Tablet"
  ELSE IF InlineMobileTest(ua, ug) THEN "Móvil"
  ELSE "PC"

\* Fragments of user-agent headers; a signature is up to MaxFragments of
\* them in a row, the empty signature standing for a missing header
\* (req.headers['user-agent'] || '').
Fragments ==
  {"Mozilla/5.0 ", "(SMART-TV; Linux; Tizen 2.3) ", "(iPad; CPU OS 13_2) Mobile/15E ",
   "(Linux; Android 9; SM-T510) ", "(iPhone; CPU iPhone OS 13) ",
   "(Windows NT 10.0; Win64) ", "Mobile Safari/537", "AppleTV6,2/11.1",
   "VLC/3.0.8 LibVLC"}

RECURSIVE Signatures(_)
Signatures(n) ==
  IF n = 0 THEN {""}
  ELSE Signatures(n - 1) \cup {s \o f : s \in Signatures(n - 1), f \in Fragments}

\* A call of detectDeviceType on the signature of the request, as the
\* /stream/:token handler makes it.
DetectDeviceType ==
  /\ Len(deviceTypes) < MaxDetections
  /\ deviceTypes' = Append(deviceTypes, detectDeviceType(userAgent))
  /\ UNCHANGED <<now, dbVariant, playlists, access_logs, connected_devices,
                 nextDeviceId, req, call>>
  /\ UNCHANGED <<mgmtVars, userAgent, useragent, inlineTypes, relayVars>>
  /\ UNCHANGED handlerVars

\* The device detection of the /m3u/:id.m3u handler on the same request.
InlineDetect ==
  /\ Len(inlineTypes) < MaxDetections
  /\ inlineTypes' = Append(inlineTypes, InlineDeviceType(userAgent, useragent))
  /\ UNCHANGED <<now, dbVariant, playlists, access_logs, connected_devices,
                 nextDeviceId, req, call>>
  /\ UNCHANGED <<mgmtVars, userAgent, useragent, deviceTypes, relayVars>>
  /\ UNCHANGED handlerVars

\* ------------------- header injection of GET /get/:mirror_id.m3u (server.js)

\* String.prototype.startsWith(p)
StartsWith(s, p) == Len(s) >= Len(p) /\ SubSeq(s, 1, Len(p)) = p

\* String.prototype.substring(start), start counted from 0.
Substring(s, start) == SubSeq(s, start + 1, Len(s))

\* `#EXTM3U\n# M3U Sentinel - Lista Monitorizada\n# Usuario: ${playlist.name}\n# ID: ${playlist.mirror_id}\n`
monitoredHeader(playlist) ==
  "#EXTM3U\n# M3U Sentinel - Lista Monitorizada\n# Usuario: " \o playlist.name
    \o "\n# ID: " \o playlist.mirror_id \o "\n"

\* The header put in front of the whole content, marker or not.
InjectHeaderAlways(playlist, m3uContent) ==
  monitoredHeader(playlist) \o m3uContent

\* The content sent on the success path: the header, then the content from
\* index 8 on when it starts with '#EXTM3U', the whole content otherwise.
InjectHeader(playlist, m3uContent) ==
  IF StartsWith(m3uContent, "#EXTM3U")
    THEN monitoredHeader(playlist) \o Substring(m3uContent, 8)
    ELSE monitoredHeader(playlist) \o m3uContent

\* The body sent when the content check fails.
InvalidContent ==
  "#EXTM3U\n#EXTINF:-1,CONTENIDO INVÁLIDO\n#EXTINF:-1,Error: No se pudo obtener la lista M3U\n"

\* Origin bodies: a first token (the marker, nothing, or an entry line
\* without marker) followed by up to MaxPieces pieces.
BodyStarts == {"#EXTM3U", "", "#EXTINF:-1,A"}
BodyPieces == {"\n", "\r\n", " url-tvg=\"e\"", "\n#EXTINF:-1,B\nhttp://o/b\n",
               "\n#EXTM3U\n"}

RECURSIVE BodyTails(_)
BodyTails(n) ==
  IF n = 0 THEN {""}
  ELSE BodyTails(n - 1) \cup {t \o q : t \in BodyTails(n - 1), q \in BodyPieces}

Bodies == {b \o t : b \in BodyStarts, t \in BodyTails(MaxPieces)}

PlaylistNames == {"Ana", "Sala TV"}

\* The handler from response.data to res.send: the content check, then the
\* header injection.
Relay(playlist) ==
  /\ relayed = <<>>
  /\ relayed' = IF body = "" THEN <<InvalidContent>>
                             ELSE <<InjectHeader(playlist, body)>>
  /\ UNCHANGED <<now, dbVariant, playlists, access_logs, connected_devices,
                 nextDeviceId, req, call>>
  /\ UNCHANGED <<mgmtVars, classifyVars, body>>
  /\ UNCHANGED handlerVars

\* --------------------- responses of GET /get/:mirror_id.m3u (server.js)

\* A response as the client receives it: status, media type of the
\* Content-Type header, Cache-Control header ("" when the handler sets
\* none; no middleware of the servers sets one), body. res.send of a string
\* without res.type leaves Express's default type.
Reply(status, type, content) ==
  [status |-> status, type |-> type, cache_control |-> "", body |-> content]

\* res.setHeader('Cache-Control', 'no-cache, no-store, must-revalidate')
NoCache(reply) ==
  [reply EXCEPT !.cache_control = "no-cache, no-store, must-revalidate"]
MpegUrlType == "application/x-mpegurl"
AppleMpegUrlType == "application/vnd.apple.mpegurl"
HtmlType == "text/html"

NotFoundContent ==
  "#EXTM3U\n#EXTINF:-1,LISTA NO ENCONTRADA\n#EXTINF:-1,Error: Playlist no encontrada o eliminada\n"

\* `...Error: Máximo de ${maxDevices} dispositivos permitidos. ...`
LimitContent(maxDevices) ==
  "#EXTM3U\n#EXTINF:-1,LÍMITE DE DISPOSITIVOS ALCANZADO\n#EXTINF:-1,Error: Máximo de "
    \o ToString(maxDevices) \o " dispositivos permitidos. Contacta al administrador.\n"

\* `#EXTM3U\n#EXTINF:-1,ERROR DE CONEXIÓN\n#EXTINF:-1,Error: ${error.message}\n`
ErrorContent(message) ==
  "#EXTM3U\n#EXTINF:-1,ERROR DE CONEXIÓN\n#EXTINF:-1,Error: " \o message \o "\n"

\* What axios.get comes back with: response.data as text (the origin body),
\* response.data as a parsed object, or a thrown error (the timeout of
\* 30000 ms, a refused connection, a non-2xx status) with its message.
Origin(kind, message) == [kind |-> kind, message |-> message]
FetchErrors == {"timeout of 30000ms exceeded", "Request failed with status code 404",
                "connect ECONNREFUSED"}
Origins == {Origin("text", ""), Origin("object", "")}
             \cup {Origin("throw", m) : m \in FetchErrors}

\* What a query of the pool can throw.
DbMessage == "Connection terminated unexpectedly"
DbOutcomes == {"ok", "lookup throws", "insert throws"}

\* FetchedReply with the origin body relayed when the fetch throws.
FetchedReplyRelaysOnError(playlist, o, content) ==
  IF o.kind = "object" \/ (o.kind = "text" /\ content = "")
    THEN Reply(500, MpegUrlType, InvalidContent)
    ELSE Reply(200, MpegUrlType, InjectHeader(playlist, content))

\* The handler after axios.get: the catch block for a thrown error, the
\* content check, the success path.
FetchedReply(playlist, o, content) ==
  IF o.kind = "throw"
    THEN Reply(200, MpegUrlType, ErrorContent(o.message))
  ELSE IF o.kind = "object" \/ content = ""
    THEN Reply(500, MpegUrlType, InvalidContent)
  ELSE Reply(200, MpegUrlType, InjectHeader(playlist, content))

\* The response of the handler for a lookup result, a database outcome and
\* an origin result.
Served(p, active, db, o, content) ==
  IF db = "lookup throws" THEN Reply(200, MpegUrlType, ErrorContent(DbMessage))
  ELSE IF p = NoRow THEN Reply(404, MpegUrlType, NotFoundContent)
  ELSE IF active >= p.max_devices
    THEN Reply(403, MpegUrlType, LimitContent(p.max_devices))
  ELSE IF db = "insert throws" THEN Reply(200, MpegUrlType, ErrorContent(DbMessage))
  ELSE FetchedReply(p, o, content)

\* User-agent headers of the requests served.
ServedAgents == {NoUserAgent, "VLC/3.0.8 LibVLC"}

\* One request served from start to end, with nothing else in between.
ServeGet(ip, ua, m, db) ==
  /\ Len(sent) < MaxSent
  /\ LET p == PlaylistByMirror(m)
         active == IF p = NoRow THEN 0 ELSE ActiveDevices(p.id)
         logged == db = "ok" /\ p # NoRow /\ active < p.max_devices
     IN /\ connected_devices' \in
             IF dbVariant = SessionsVariant THEN CleanupOutcomes
                                            ELSE {connected_devices}
        /\ access_logs' = IF logged THEN Append(access_logs, NewLog(p.id, ip, ua))
                                    ELSE access_logs
        /\ sent' = Append(sent, Served(p, active, db, origin, body))
  /\ UNCHANGED <<now, dbVariant, playlists, nextDeviceId, req, call>>
  /\ UNCHANGED <<mgmtVars, classifyVars, relayVars>>
  /\ UNCHANGED <<origin, users, m3u, device_stats, stream, metrics>>

\* ------------------------------------ the users table and logAccess (part_002)

\* Two values of the UUID primary key; an id that is not a UUID makes the
\* query throw.
UserIds == {1, 2}

\* last_device VARCHAR(50): a longer device name makes the UPDATE throw.
LAST_DEVICE_MAX == 50
UserExists(id) == \E u \in users : u.id = id
UserRow(id) == CHOOSE u \in users : u.id = id

\* accessLogs.slice(-100): the last 100 entries.
KEEP_LAST == 100
Slice(accessLogs) ==
  IF Len(accessLogs) > KEEP_LAST
    THEN SubSeq(accessLogs, Len(accessLogs) - KEEP_LAST + 1, Len(accessLogs))
    ELSE accessLogs

\* const newLog = { date: new Date().toISOString(), device, ip }
NewUserLog(device, ip) == [date |-> now, device |-> device, ip |-> ip]

\* UPDATE users SET last_device = $1, access_logs = $2 WHERE id = $3, with
\* the trimmed array the caller built from the row it read.
Logged(id, logs, device, ip) ==
  {IF u.id = id THEN [u EXCEPT !.access_logs = logs, !.last_device = device]
                ELSE u : u \in users}

\* deleteUser: DELETE FROM users WHERE id = $1.
DeleteUser(id) ==
  /\ UserExists(id)
  /\ users' = {u \in users : u.id # id}
  /\ UNCHANGED <<now, dbVariant, playlists, access_logs, connected_devices,
                 nextDeviceId, req, call>>
  /\ UNCHANGED <<mgmtVars, classifyVars, relayVars>>
  /\ UNCHANGED <<origin, sent, m3u, device_stats, stream, metrics>>

\* ------------------------------------------ GET /m3u/:id.m3u (part_001)

\* ua.substring(0, 50)
UaPrefix(ua) == SubSeq(ua, 1, IF Len(ua) < 50 THEN Len(ua) ELSE 50)

\* deviceName after the if / else-if chain; it starts as 'Computadora'.
InlineDeviceName(ua, ug) ==
  LET lc == toLowerCase(ua)
  IN IF InlineTvTest(ua)
       THEN IF TestAny(lc, {"webos", "lg"}) THEN "LG Smart TV"
            ELSE IF TestAny(lc, {"tizen", "samsung"}) THEN "Samsung Smart TV"
            ELSE IF TestAny(lc, {"roku"}) THEN "Roku"
            ELSE IF TestAny(lc, {"firetv", "amazon"}) THEN "Amazon Fire TV"
            ELSE IF TestAny(lc, {"appletv", "apple"}) THEN "Apple TV"
            ELSE IF TestAny(lc, {"chromecast"}) THEN "Chromecast"
            ELSE "Smart TV"
     ELSE IF InlineTabletTest(ua, ug)
       THEN IF TestAny(lc, {"ipad"}) THEN "iPad"
            ELSE IF TestAny(lc, {"android"}) THEN "Android Tablet"
            ELSE "Tablet"
     ELSE IF InlineMobileTest(ua, ug)
       THEN IF TestAny(lc, {"iphone", "ipad"}) THEN "iPhone/iPad"
            ELSE IF TestAny(lc, {"android"}) THEN "Android"
            ELSE "Móvil"
     ELSE (IF TestAny(lc, {"windows"}) THEN "Windows PC"
           ELSE IF TestAny(lc, {"mac"}) THEN "Mac"
           ELSE IF TestAny(lc, {"linux"}) THEN "Linux"
           ELSE "Computadora") \o " (" \o UaPrefix(ua) \o ")"

\* User-agent headers and origin bodies of the /m3u and /stream requests.
Agents == {"", "(SMART-TV; Linux; Tizen 2.3) "}
OriginBodies == {"#EXTM3U\n#EXTINF:-1,B\nhttp://o/b\n", "<html>busy</html>"}

\* What a query or axios.get does: it returns, or it throws.
Outcomes == {"ok", "throw"}

M3uNotFound == Reply(404, HtmlType, "# ERROR: Playlist no encontrada")
M3uBadGateway == Reply(502, HtmlType, "# ERROR: No se pudo obtener la playlist original")
M3uInternal == Reply(500, HtmlType, "# ERROR: Error interno del servidor")

M3uInFlight(q) == q.pc \notin {"idle", "done"}

\* Entries stored in the access_logs of all users.
UserLogLen(rows) ==
  IF rows = {} THEN 0 ELSE Len((CHOOSE u \in rows : TRUE).access_logs)

\* A finished request: its slot keeps the user id, the client, the number
\* of origin fetches and the responses sent.
M3uDone(q, reply) ==
  [IdleM3u EXCEPT !.pc = "done", !.id = q.id, !.ip = q.ip,
                  !.fetches = q.fetches, !.sent = Append(q.sent, reply)]

\* A request is served in the lowest free slot.
M3uStart(r, id, ip, ua) ==
  /\ ~M3uInFlight(m3u[r])
  /\ \A q \in M3uIds : q < r => M3uInFlight(m3u[q])
  /\ UserLogLen(users) + Cardinality({q \in M3uIds : M3uInFlight(m3u[q])}) < MaxUserLog
  /\ m3u' = [m3u EXCEPT ![r] = [IdleM3u EXCEPT !.pc = "getUser", !.id = id,
                                               !.ip = ip, !.ua = ua]]
  /\ UNCHANGED <<now, dbVariant, playlists, access_logs, connected_devices,
                 nextDeviceId, req, call>>
  /\ UNCHANGED <<mgmtVars, classifyVars, relayVars>>
  /\ UNCHANGED <<origin, sent, users, device_stats, stream, metrics>>

\* The handler from the return of db.getUserById up to its next await:
\* 404 without a row, the device detection otherwise; a thrown query error
\* goes to the outer catch.
M3uAfterGetUser(q, outcome) ==
  IF outcome = "throw" THEN M3uDone(q, M3uInternal)
  ELSE IF ~UserExists(q.id) THEN M3uDone(q, M3uNotFound)
  ELSE [q EXCEPT !.pc = "logRead", !.device = InlineDeviceName(q.ua, useragent)]

\* await db.getUserById(userId) and the synchronous code that follows it.
M3uGetUser(r, outcome) ==
  /\ m3u[r].pc = "getUser"
  /\ m3u' = [m3u EXCEPT ![r] = M3uAfterGetUser(m3u[r], outcome)]
  /\ UNCHANGED <<now, dbVariant, playlists, access_logs, connected_devices,
                 nextDeviceId, req, call>>
  /\ UNCHANGED <<mgmtVars, classifyVars, relayVars>>
  /\ UNCHANGED <<origin, sent, users, device_stats, stream, metrics>>

\* db.logAccess, first await: getUserById; null without a row; otherwise the
\* new entry is pushed on the array read and the array is trimmed.
M3uLogRead(r, outcome) ==
  /\ m3u[r].pc = "logRead"
  /\ m3u' = [m3u EXCEPT ![r] =
       IF outcome = "throw" THEN M3uDone(@, M3uInternal)
       ELSE IF ~UserExists(@.id) THEN [@ EXCEPT !.pc = "fetch"]
       ELSE [@ EXCEPT !.pc = "logWrite",
                      !.logs = Slice(Append(UserRow(m3u[r].id).access_logs,
                                            NewUserLog(m3u[r].device, m3u[r].ip)))]]
  /\ UNCHANGED <<now, dbVariant, playlists, access_logs, connected_devices,
                 nextDeviceId, req, call>>
  /\ UNCHANGED <<mgmtVars, classifyVars, relayVars>>
  /\ UNCHANGED <<origin, sent, users, device_stats, stream, metrics>>

\* db.logAccess, second await: the UPDATE of the users row.
M3uLogWrite(r, outcome) ==
  /\ m3u[r].pc = "logWrite"
  /\ IF outcome = "throw" \/ Len(m3u[r].device) > LAST_DEVICE_MAX
       THEN /\ users' = users
            /\ m3u' = [m3u EXCEPT ![r] = M3uDone(@, M3uInternal)]
       ELSE /\ users' = Logged(m3u[r].id, m3u[r].logs, m3u[r].device, m3u[r].ip)
            /\ m3u' = [m3u EXCEPT ![r] = [@ EXCEPT !.pc = "fetch", !.logs = <<>>]]
  /\ UNCHANGED <<now, dbVariant, playlists, access_logs, connected_devices,
                 nextDeviceId, req, call>>
  /\ UNCHANGED <<mgmtVars, classifyVars, relayVars>>
  /\ UNCHANGED <<origin, sent, device_stats, stream, metrics>>

\* await axios.get(user.original_url, { timeout: 30000, ... }) in the inner
\* try: response.data is sent as it came, a thrown error gives the 502.
M3uFetch(r, outcome, content) ==
  /\ m3u[r].pc = "fetch"
  /\ m3u' = [m3u EXCEPT ![r] =
       M3uDone([@ EXCEPT !.fetches = @ + 1],
               IF outcome = "throw" THEN M3uBadGateway
                                    ELSE NoCache(Reply(200, MpegUrlType, content)))]
  /\ UNCHANGED <<now, dbVariant, playlists, access_logs, connected_devices,
                 nextDeviceId, req, call>>
  /\ UNCHANGED <<mgmtVars, classifyVars, relayVars>>
  /\ UNCHANGED <<origin, sent, users, device_stats, stream, metrics>>

\* ------------------------------------------ GET /stream/:token (part_001)

\* String.prototype.replace(p, ''): the first occurrence of p is removed.
RemoveFirst(s, p) ==
  LET at == {i \in 1..(Len(s) - Len(p) + 1) : SubSeq(s, i, i + Len(p) - 1) = p}
  IN IF at = {} THEN s
     ELSE LET i == CHOOSE x \in at : \A y \in at : x <= y
          IN SubSeq(s, 1, i - 1) \o SubSeq(s, i + Len(p), Len(s))

\* s LIKE '%' || t || '%' for a t without '%': t occurs in s, an underscore
\* of t standing for any one character.
LikeContains(s, t) ==
  \E i \in 1..(Len(s) - Len(t) + 1) :
    \A j \in 1..Len(t) :
      SubSeq(t, j, j) = "_" \/ SubSeq(t, j, j) = SubSeq(s, i + j - 1, i + j - 1)

\* SELECT * FROM monitors WHERE is_active = 1 AND proxy_url LIKE '%token%'
MonitorsByToken(cleanToken) ==
  {m \in monitors : m.is_active = 1 /\ LikeContains(m.proxy_url, cleanToken)}

\* The :token path parameters requested: issued tokens with and without the
\* extension, a substring two issued tokens share, a word of every stored
\* URL, and the bare extension.
StreamTokens ==
  TokenPool \cup {t \o ".m3u" : t \in TokenPool} \cup {"lq2w8z", "stream", ".m3u"}

StreamNotFound == Reply(404, HtmlType, "Stream no encontrado")
StreamBadGateway == Reply(502, HtmlType, "Error al obtener el stream")

StreamInFlight(q) == q.pc \notin {"idle", "done"}

\* A finished request: its slot keeps the token, the monitor it resolved
\* to, the number of origin fetches and the responses sent.
StreamDone(q, reply) ==
  [IdleStream EXCEPT !.pc = "done", !.token = q.token, !.monitor = q.monitor,
                     !.fetches = q.fetches, !.sent = Append(q.sent, reply)]

StreamStart(r, token, ua) ==
  /\ ~StreamInFlight(stream[r])
  /\ \A q \in StreamIds : q < r => StreamInFlight(stream[q])
  /\ Len(device_stats) + Cardinality({q \in StreamIds : StreamInFlight(stream[q])})
       < MaxStats
  /\ stream' = [stream EXCEPT ![r] = [IdleStream EXCEPT !.pc = "lookup",
                                                        !.token = token, !.ua = ua]]
  /\ UNCHANGED <<now, dbVariant, playlists, access_logs, connected_devices,
                 nextDeviceId, req, call>>
  /\ UNCHANGED <<mgmtVars, classifyVars, relayVars>>
  /\ UNCHANGED <<origin, sent, users, m3u, device_stats, metrics>>

\* The SELECT by token and the check that follows: rows[0] of a query
\* without ORDER BY is any of the matching rows.
StreamLookup(r, outcome) ==
  /\ stream[r].pc = "lookup"
  /\ LET rows == MonitorsByToken(RemoveFirst(stream[r].token, ".m3u"))
     IN IF outcome = "throw"
          THEN stream' = [stream EXCEPT ![r] = StreamDone(@, StreamBadGateway)]
        ELSE IF rows = {}
          THEN stream' = [stream EXCEPT ![r] = StreamDone(@, StreamNotFound)]
        ELSE \E m \in rows :
               stream' = [stream EXCEPT ![r] = [@ EXCEPT !.pc = "insert",
                                                         !.monitor = m.id]]
  /\ UNCHANGED <<now, dbVariant, playlists, access_logs, connected_devices,
                 nextDeviceId, req, call>>
  /\ UNCHANGED <<mgmtVars, classifyVars, relayVars>>
  /\ UNCHANGED <<origin, sent, users, m3u, device_stats, metrics>>

\* INSERT INTO device_stats (monitor_id, device_type, device_info); the
\* foreign key to monitors makes it throw once the monitor is deleted.
StreamInsert(r, outcome) ==
  /\ stream[r].pc = "insert"
  /\ IF outcome = "throw" \/ ~MonitorExists(stream[r].monitor)
       THEN /\ device_stats' = device_stats
            /\ stream' = [stream EXCEPT ![r] = StreamDone(@, StreamBadGateway)]
       ELSE /\ device_stats' = Append(device_stats,
                 [monitor_id |-> stream[r].monitor,
                  device_type |-> detectDeviceType(stream[r].ua)])
            /\ stream' = [stream EXCEPT ![r].pc = "fetch"]
  /\ UNCHANGED <<now, dbVariant, playlists, access_logs, connected_devices,
                 nextDeviceId, req, call>>
  /\ UNCHANGED <<mgmtVars, classifyVars, relayVars>>
  /\ UNCHANGED <<origin, sent, users, m3u, metrics>>

\* await axios.get(monitor.url, { timeout: 15000, ... }): response.data is
\* sent as it came, a thrown error gives the 502 of the catch block.
StreamFetch(r, outcome, content) ==
  /\ stream[r].pc = "fetch"
  /\ stream' = [stream EXCEPT ![r] =
       StreamDone([@ EXCEPT !.fetches = @ + 1],
                  IF outcome = "throw" THEN StreamBadGateway
                                       ELSE Reply(200, AppleMpegUrlType, content))]
  /\ UNCHANGED <<now, dbVariant, playlists, access_logs, connected_devices,
                 nextDeviceId, req, call>>
  /\ UNCHANGED <<mgmtVars, classifyVars, relayVars>>
  /\ UNCHANGED <<origin, sent, users, m3u, device_stats, metrics>>

\* ------------------------------------- the monitoring worker (part_001)

\* What axios.get(monitor.url, { timeout: 10000 }) of a check comes back
\* with: a response (2xx), or a thrown error, with the status of
\* error.response or 0 without one.
CheckResult(ok, status, message) == [ok |-> ok, status |-> status, message |-> message]
CheckResults ==
  {CheckResult(TRUE, 200, ""),
   CheckResult(FALSE, 404, "Request failed with status code 404"),
   CheckResult(FALSE, 0, "timeout of 10000ms exceeded")}

\* The is_online value of the success INSERT:
\* VALUES ($1, $2, $3, $4, 5, NULL).
SUCCESS_IS_ONLINE == 5

\* The metrics row checkMonitor inserts; error_message NULL is "".
Metric(id, result) ==
  [monitor_id |-> id, status_code |-> result.status,
   is_online |-> IF result.ok THEN SUCCESS_IS_ONLINE ELSE 0,
   error_message |-> result.message, timestamp |-> now]

\* checkMonitor(monitor) for an active monitor the worker selected.
CheckMonitor(id, result) ==
  /\ Len(metrics) < MaxMetrics
  /\ \E m \in monitors : m.id = id /\ m.is_active = 1
  /\ metrics' = Append(metrics, Metric(id, result))
  /\ UNCHANGED <<now, dbVariant, playlists, access_logs, connected_devices,
                 nextDeviceId, req, call>>
  /\ UNCHANGED <<mgmtVars, classifyVars, relayVars>>
  /\ UNCHANGED <<origin, sent, users, m3u, device_stats, stream>>

\* INTERVAL '24 hours', in minutes.
DAY_MINUTES == 1440

\* Rows of a monitor inside the 24-hour window of the reports.
Metrics24h(id) ==
  {i \in 1..Len(metrics) : /\ metrics[i].monitor_id = id
                           /\ metrics[i].timestamp > now - DAY_MINUTES}

\* uptime_24h of GET /api/monitors and online_checks of GET /api/stats/:id.
Uptime24h(id) == Cardinality({i \in Metrics24h(id) : metrics[i].is_online = 1})

\* total_checks_24h and total_checks of the same reports.
TotalChecks24h(id) == Cardinality(Metrics24h(id))

\* ------------------------------------------------------- specifications

\* The running server: server.js serving proxy requests over either db.js
\* variant, with the clock and the management deletion.
Next ==
  \/ Tick
  \/ \E r \in ReqIds, ip \in Clients, m \in MirrorIds : StartRequest(r, ip, m, MaxLog)
  \/ \E r \in ReqIds : LookupCleanup(r)
  \/ \E r \in ReqIds : LookupSelect(r)
  \/ \E r \in ReqIds : LogAccess(r)
  \/ \E r \in ReqIds, o \in FetchOutcomes : Fetch(r, o)
  \/ \E pid \in PlaylistIds : DeletePlaylist(pid)

Spec == Init /\ [][Next]_vars

\* The session tracker under any callers: concurrent registerDevice calls
\* (connected_devices variant), one proxy request at a time, the clock and
\* the management deletion.
LogBudgetDb == IF dbVariant = LogsVariant THEN MaxLog ELSE MaxLogDb

\* Client address tokens of the session tracker's callers.
DbClients == {"a", "b"}

NextDb ==
  \/ Tick
  \/ \E ip \in DbClients : StartRequest(1, ip, "m1", LogBudgetDb)
  \/ LookupCleanup(1)
  \/ LookupSelect(1)
  \/ LogAccess(1)
  \/ \E o \in FetchOutcomes : Fetch(1, o)
  \/ \E k \in CallIds, pid \in PlaylistIds, ip \in DbClients : StartRegister(k, pid, ip)
  \/ \E k \in CallIds : RegisterCleanup(k)
  \/ \E k \in CallIds : RegisterCheck(k)
  \/ \E k \in CallIds : RegisterUpdate(k)
  \/ \E k \in CallIds : RegisterInsert(k)
  \/ \E pid \in PlaylistIds : DeletePlaylist(pid)
  \/ GetAllPlaylists
  \/ \E pid \in PlaylistIds : GetDeviceAnalytics(pid)

SpecDb == Init /\ [][NextDb]_vars

\* The management API: playlists are created, updated and deleted
\* (server.js over db.js), monitors are created, toggled, given a new proxy
\* URL and deleted (part_001). No playlist and no monitor is stored at first.
InitMgmt ==
  /\ DbIdle
  /\ playlists = {}
  /\ nextPlaylistId = 1
  /\ MgmtIdle
  /\ ClassifyIdle
  /\ RelayIdle
  /\ HandlerIdle

NextMgmt ==
  \/ \E c \in CreateIds, m \in MirrorPool, d \in MaxDevicesChoices : StartCreate(c, m, d)
  \/ \E c \in CreateIds : CreateInsert(c)
  \/ \E pid \in MgmtPlaylistIds, d \in MaxDevicesChoices : UpdatePlaylist(pid, d)
  \/ \E pid \in MgmtPlaylistIds : DeletePlaylist(pid)
  \/ \E t \in TokenPool : CreateMonitor(t)
  \/ \E id \in MonitorIds : ToggleMonitor(id)
  \/ \E id \in MonitorIds, t \in TokenPool : RegenerateProxy(id, t)
  \/ \E id \in MonitorIds : DeleteMonitor(id)

SpecMgmt == InitMgmt /\ [][NextMgmt]_vars

\* The classifiers on one request: its signature and its req.useragent
\* flags are drawn at the start, the classifiers are called on it, and the
\* clock moves between the calls.
InitClassify ==
  /\ DbIdle
  /\ playlists = {}
  /\ nextPlaylistId = 1
  /\ MgmtIdle
  /\ userAgent \in Signatures(MaxFragments)
  /\ useragent \in [isTablet : BOOLEAN, isMobile : BOOLEAN]
  /\ deviceTypes = <<>>
  /\ inlineTypes = <<>>
  /\ RelayIdle
  /\ HandlerIdle

NextClassify ==
  \/ DetectDeviceType
  \/ InlineDetect
  \/ Tick

SpecClassify == InitClassify /\ [][NextClassify]_vars

\* The relay of one origin body: the playlist row the lookup returned (its
\* name included) and the body axios.get came back with are drawn at the
\* start.
InitRelay ==
  /\ DbIdle
  /\ \E m \in MaxDevicesChoices, n \in PlaylistNames :
       playlists = {[id |-> 1, mirror_id |-> "m1", max_devices |-> m, name |-> n]}
  /\ nextPlaylistId = 2
  /\ MgmtIdle
  /\ ClassifyIdle
  /\ body \in Bodies
  /\ relayed = <<>>
  /\ HandlerIdle

NextRelay == \E p \in playlists : Relay(p)

SpecRelay == InitRelay /\ [][NextRelay]_vars

\* The responses of the proxy endpoint: requests served one after the other
\* over one playlist, one origin body and one origin result.
InitPaths ==
  /\ DbIdle
  /\ \E m \in MaxDevicesChoices, n \in PlaylistNames :
       playlists = {[id |-> 1, mirror_id |-> "m1", max_devices |-> m, name |-> n]}
  /\ nextPlaylistId = 2
  /\ MgmtIdle
  /\ ClassifyIdle
  /\ body \in Bodies
  /\ relayed = <<>>
  /\ origin \in Origins
  /\ sent = <<>>
  /\ users = {}
  /\ m3u = [r \in M3uIds |-> IdleM3u]
  /\ device_stats = <<>>
  /\ stream = [r \in StreamIds |-> IdleStream]
  /\ metrics = <<>>

NextPaths ==
  \E ip \in DbClients, ua \in ServedAgents, m \in MirrorIds, db \in DbOutcomes :
    ServeGet(ip, ua, m, db)

SpecPaths == InitPaths /\ [][NextPaths]_vars

\* The /m3u/:id.m3u endpoint of part_001 over the users table of part_002:
\* concurrent requests for a stored and for an unknown id, and deleteUser.
InitM3u ==
  /\ DbIdle
  /\ playlists = {}
  /\ nextPlaylistId = 1
  /\ MgmtIdle
  /\ ClassifyIdle
  /\ RelayIdle
  /\ origin = [kind |-> "none", message |-> ""]
  /\ sent = <<>>
  /\ users = {[id |-> 1, access_logs |-> <<>>, last_device |-> ""]}
  /\ m3u = [r \in M3uIds |-> IdleM3u]
  /\ device_stats = <<>>
  /\ stream = [r \in StreamIds |-> IdleStream]
  /\ metrics = <<>>

NextM3u ==
  \/ \E r \in M3uIds, id \in UserIds, ip \in DbClients, ua \in Agents :
       M3uStart(r, id, ip, ua)
  \/ \E r \in M3uIds, o \in Outcomes : M3uGetUser(r, o)
  \/ \E r \in M3uIds, o \in Outcomes : M3uLogRead(r, o)
  \/ \E r \in M3uIds, o \in Outcomes : M3uLogWrite(r, o)
  \/ \E r \in M3uIds, o \in Outcomes, c \in OriginBodies : M3uFetch(r, o, c)
  \/ \E id \in UserIds : DeleteUser(id)

SpecM3u == InitM3u /\ [][NextM3u]_vars

\* The /stream/:token endpoint of part_001 with the monitor management.
NextStream ==
  \/ \E r \in StreamIds, t \in StreamTokens, ua \in Agents : StreamStart(r, t, ua)
  \/ \E r \in StreamIds, o \in Outcomes : StreamLookup(r, o)
  \/ \E r \in StreamIds, o \in Outcomes : StreamInsert(r, o)
  \/ \E r \in StreamIds, o \in Outcomes, c \in OriginBodies : StreamFetch(r, o, c)
  \/ \E t \in TokenPool : CreateMonitor(t)
  \/ \E id \in MonitorIds : ToggleMonitor(id)
  \/ \E id \in MonitorIds, t \in TokenPool : RegenerateProxy(id, t)
  \/ \E id \in MonitorIds : DeleteMonitor(id)

SpecStream == InitMgmt /\ [][NextStream]_vars

\* The running server with its awaits resolving: a database query returns
\* or throws, and axios.get returns, throws or hits its timeout of 30000 ms,
\* so every step of a request in flight is eventually taken.
Fairness ==
  \A r \in ReqIds :
    /\ WF_vars(LookupCleanup(r))
    /\ WF_vars(LookupSelect(r))
    /\ WF_vars(LogAccess(r))
    /\ WF_vars(\E o \in FetchOutcomes : Fetch(r, o))

SpecFair == Spec /\ Fairness

\* The management API with request bodies whose max_devices is in and out
\* of range.
NextRange ==
  \/ \E c \in CreateIds, m \in MirrorPool, d \in RequestedMaxDevices : StartCreate(c, m, d)
  \/ \E c \in CreateIds : CreateInsert(c)
  \/ \E pid \in MgmtPlaylistIds, d \in RequestedMaxDevices : UpdatePlaylist(pid, d)
  \/ \E pid \in MgmtPlaylistIds : DeletePlaylist(pid)

SpecRange == InitMgmt /\ [][NextRange]_vars

\* The monitoring worker checking the active monitors while monitors are
\* created, toggled and deleted.
\* Two stored playlists, each with its own mirror identifier.
IsoPlaylistIds == {1, 2}
IsoMirrorIds == {"m1", "m2"}

InitIso ==
  /\ DbIdle
  /\ playlists = {[id |-> 1, mirror_id |-> "m1", max_devices |-> 1],
                  [id |-> 2, mirror_id |-> "m2", max_devices |-> 1]}
  /\ nextPlaylistId = 3
  /\ MgmtIdle
  /\ ClassifyIdle
  /\ RelayIdle
  /\ HandlerIdle

NextIso ==
  \/ Tick
  \/ \E m \in IsoMirrorIds : StartRequest(1, "a", m, LogBudgetDb)
  \/ LookupCleanup(1)
  \/ LookupSelect(1)
  \/ LogAccess(1)
  \/ Fetch(1, "text")
  \/ \E pid \in IsoPlaylistIds : StartRegister(1, pid, "b")
  \/ RegisterCleanup(1)
  \/ RegisterCheck(1)
  \/ RegisterUpdate(1)
  \/ RegisterInsert(1)

SpecIso == InitIso /\ [][NextIso]_vars

NextWorker ==
  \/ \E t \in TokenPool : CreateMonitor(t)
  \/ \E id \in MonitorIds : ToggleMonitor(id)
  \/ \E id \in MonitorIds : DeleteMonitor(id)
  \/ \E id \in MonitorIds, o \in CheckResults : CheckMonitor(id, o)

SpecWorker == InitMgmt /\ [][NextWorker]_vars

\* ================================================================ claims

\* Age of a timestamp, and the open trailing window of the variant in use
\* (ages on the edge of the window are left to the boundary claim).
Age(t) == now - t
InsideWindow(t) == Age(t) < Window
PastWindow(t) == Age(t) > Window

\* Identities admitted by the endpoint inside the window: db.logAccess is
\* called exactly when a request passes the cap check.
AdmittedInside(pid) ==
  {l.ip_address : l \in {x \in LogRows : x.playlist_id = pid
                                         /\ InsideWindow(x.accessed_at)}}

\* Identities the lookup counts as active devices of a playlist.
CountedIdentities(pid) ==
  IF dbVariant = LogsVariant
    THEN {l.ip_address : l \in {x \in LogRows :
             x.playlist_id = pid /\ x.accessed_at > now - LOG_WINDOW_MINUTES}}
    ELSE {d.ip_address : d \in {x \in connected_devices :
             x.playlist_id = pid /\ x.is_active}}

\* The step in which request r gets the playlist row and count back and
\* runs the not-found and cap checks.
SelectStep(r) == req[r].pc = "select" /\ req'[r].pc # "select"

Rejected(q) == q.pc = "done" /\ q.resp.kind = "LimitExceeded"

\* C1: cap enforcement. When max_devices other identities were admitted
\* inside the window, the lookup of a further identity ends in the
\* limit-exceeded response, which states max_devices.
C1_CapEnforced ==
  [][\A r \in ReqIds :
       LET p == PlaylistByMirror(req[r].mirror) IN
       (/\ SelectStep(r)
        /\ p # NoRow
        /\ Cardinality(AdmittedInside(p.id) \ {req[r].ip}) >= p.max_devices)
       => req'[r].resp = Response("LimitExceeded", 403, p.max_devices)]_vars

\* C2: a returning device is never blocked. When the requesting identity is
\* itself one of the identities counted as active inside the window, its
\* request is not rejected by the cap check.
C2_ReturningAdmitted ==
  [][\A r \in ReqIds :
       LET p == PlaylistByMirror(req[r].mirror) IN
       (/\ SelectStep(r)
        /\ p # NoRow
        /\ req[r].ip \in CountedIdentities(p.id)
        /\ req[r].ip \in AdmittedInside(p.id))
       => ~Rejected(req'[r])]_vars

\* C3: admission registers the session. Every identity whose admission was
\* recorded inside the window is among the identities the lookup counts.
C3_AdmissionCounted ==
  \A l \in LogRows :
    InsideWindow(l.accessed_at) => l.ip_address \in CountedIdentities(l.playlist_id)

\* C4: the cap holds under concurrency. The number of identities counted as
\* active never exceeds max_devices.
C4_CapUnderConcurrency ==
  \A p \in playlists : ActiveDevices(p.id) <= p.max_devices

\* C5: no origin call on rejection. A request that ended in the
\* limit-exceeded response made no outbound fetch.
C5_NoFetchOnRejection ==
  \A r \in ReqIds : Rejected(req[r]) => req[r].fetches = 0

\* A request was rejected while another one, admitted, did fetch the origin.
C5_Witness ==
  \E r, s \in ReqIds :
    /\ Rejected(req[r]) /\ req[r].resp.max \in MaxDevicesChoices
    /\ req[s].pc = "done" /\ req[s].fetches = 1

\* The count a full lookup returns now: cleanupExpiredDevices, then the
\* active_devices column.
LookupCount(pid) ==
  IF dbVariant = LogsVariant THEN ActiveDevicesLogs(pid)
                             ELSE CountActive(Swept(connected_devices), pid)

\* The identity has a session the lookup counts: an access inside the
\* counting window, or a session row the sweep leaves alone.
HasLiveSession(pid, ip) ==
  IF dbVariant = LogsVariant
    THEN \E l \in LogRows : /\ l.playlist_id = pid /\ l.ip_address = ip
                            /\ l.accessed_at > now - LOG_WINDOW_MINUTES
    ELSE \E d \in DeviceRows(pid, ip) :
            ~(d.last_heartbeat_at < now - DEVICE_EXPIRY_MINUTES)

\* A step of a registerDevice call, or the db.logAccess step of a request,
\* made for the pair.
TouchStep(pid, ip) ==
  \/ \E k \in CallIds : /\ CallInFlight(call[k])
                        /\ call[k].pid = pid /\ call[k].ip = ip
                        /\ call'[k] # call[k]
  \/ \E r \in ReqIds : /\ req[r].pc = "log"
                       /\ req[r].playlist.id = pid /\ req[r].ip = ip
                       /\ req'[r] # req[r]

\* C6: idempotent heartbeat. A touch by an identity that has a live session
\* leaves the count a lookup returns unchanged and does not raise the
\* stored count.
C6_IdempotentHeartbeat ==
  [][\A pid \in PlaylistIds, ip \in Clients :
       (TouchStep(pid, ip) /\ HasLiveSession(pid, ip))
       => /\ LookupCount(pid)' = LookupCount(pid)
          /\ ActiveDevices(pid)' <= ActiveDevices(pid)]_vars

\* A heartbeat was refreshed at the edge of the window while another
\* identity is counted too.
C6_Witness ==
  /\ dbVariant = SessionsVariant
  /\ now = DEVICE_EXPIRY_MINUTES
  /\ \E k \in CallIds :
       /\ call[k].pc = "done"
       /\ call[k].result.message = "Device heartbeat updated"
       /\ \E d \in DeviceRows(call[k].pid, call[k].ip) :
            /\ d.is_active
            /\ d.first_connected_at = 0
            /\ d.last_heartbeat_at = now
       /\ ActiveDevices(call[k].pid) = 2

\* C7: expiry independent of the sweep. Whenever a lookup is about to read
\* the count, no session whose last heartbeat is older than the TTL is among
\* the sessions counted.
C7_ExpiredNotCounted ==
  \A r \in ReqIds :
    req[r].pc = "select" =>
      \A d \in connected_devices :
        (dbVariant = SessionsVariant /\ PastWindow(d.last_heartbeat_at))
        => d.ip_address \notin CountedIdentities(d.playlist_id)

\* The step in which call k writes, and the pair it writes for.
WriteStep(k, pc) == call[k].pc = pc /\ call'[k].pc = "done"

\* C8: touch semantics. A registerDevice call whose pair has no session
\* creates one, active, and returns isNew = true; a call whose pair has a
\* session (active or not) sets its last heartbeat to now, sets it active
\* and returns isNew = false, the number of sessions unchanged. (The pair's
\* state is the one the call read and still finds when it writes.)
C8_TouchSemantics ==
  [][\A k \in CallIds :
       LET pid == call[k].pid
           ip == call[k].ip
           rows == DeviceRows(pid, ip)
           rowsAfter == {d \in connected_devices' :
                           d.playlist_id = pid /\ d.ip_address = ip}
       IN
       /\ (call[k].pc = "check" /\ call'[k] # call[k])
            => call'[k].pc = IF rows = {} THEN "insert" ELSE "update"
       /\ (WriteStep(k, "insert") /\ rows = {} /\ PlaylistExists(pid))
            => /\ call'[k].result.success /\ call'[k].result.isNew
               /\ Cardinality(rowsAfter) = 1
               /\ \A d \in rowsAfter : d.is_active /\ d.last_heartbeat_at = now
               /\ Cardinality(connected_devices') = Cardinality(connected_devices) + 1
       /\ (WriteStep(k, "update") /\ rows # {})
            => /\ call'[k].result.success /\ ~call'[k].result.isNew
               /\ \A d \in rowsAfter : d.is_active /\ d.last_heartbeat_at = now
               /\ {d.id : d \in rowsAfter} = {d.id : d \in rows}
               /\ Cardinality(connected_devices') = Cardinality(connected_devices)]_vars

\* An expired, inactive session was touched and is active again.
C8_Witness ==
  \E k \in CallIds :
    /\ call[k].pc = "done"
    /\ call[k].result = Result(TRUE, FALSE, "Device heartbeat updated")
    /\ \E d \in DeviceRows(call[k].pid, call[k].ip) :
         /\ d.is_active
         /\ d.first_connected_at = 0
         /\ d.last_heartbeat_at = DEVICE_EXPIRY_MINUTES + 1

\* The call ran the INSERT branch: its check found no session of the pair.
TookInsertBranch(c) ==
  c.pc = "done" /\ c.result.message \in {"New device registered", "duplicate key"}

\* C9: touch is race-safe. Two finished registerDevice calls for one pair
\* that both found no prior session both report success, exactly one of
\* them isNew = true, and the pair has exactly one session, active.
C9_RaceSafeTouch ==
  \A k1, k2 \in CallIds :
    (/\ k1 # k2
     /\ TookInsertBranch(call[k1]) /\ TookInsertBranch(call[k2])
     /\ call[k1].pid = call[k2].pid /\ call[k1].ip = call[k2].ip
     /\ PlaylistExists(call[k1].pid))
    => /\ call[k1].result.success /\ call[k2].result.success
       /\ call[k1].result.isNew # call[k2].result.isNew

\* C10: session uniqueness. No two session rows share a (playlist, identity)
\* pair.
C10_SessionUnique ==
  \A d1, d2 \in connected_devices :
    (d1.playlist_id = d2.playlist_id /\ d1.ip_address = d2.ip_address) => d1 = d2

\* A call is about to INSERT a session for a pair that already has one.
C10_Witness ==
  \E k \in CallIds :
    call[k].pc = "insert" /\ DeviceRows(call[k].pid, call[k].ip) # {}

\* Identities a full lookup counts now: the sweep of cleanupExpiredDevices,
\* then the count.
LookupIdentities(pid) ==
  IF dbVariant = LogsVariant
    THEN {l.ip_address : l \in {x \in LogRows :
             x.playlist_id = pid /\ x.accessed_at > now - LOG_WINDOW_MINUTES}}
    ELSE {d.ip_address : d \in {x \in Swept(connected_devices) :
             x.playlist_id = pid /\ x.is_active}}

\* The access history of a playlist as the entries of the JSON-file db.
JsonLogs(pid) ==
  {[date |-> l.accessed_at, ip |-> l.ip_address] :
     l \in {x \in LogRows : x.playlist_id = pid}}

\* Identities with an access (access_logs variant) or a session
\* (connected_devices variant) whose age is at most the window.
WithinInclusive(pid) ==
  IF dbVariant = LogsVariant
    THEN {l.ip_address : l \in {x \in LogRows :
             x.playlist_id = pid /\ Age(x.accessed_at) <= Window}}
    ELSE {d.ip_address : d \in {x \in connected_devices :
             x.playlist_id = pid /\ Age(x.last_heartbeat_at) <= Window}}

\* C11: inclusive window boundary. An identity is counted by a lookup
\* exactly when the age of its last access or heartbeat is at most the TTL
\* (an age equal to the TTL still counts, one tick more does not); the same
\* for the JSON-file count over the access history.
C11_WindowInclusive ==
  \A pid \in PlaylistIds :
    /\ LookupIdentities(pid) = WithinInclusive(pid)
    /\ calculateActiveConnections(JsonLogs(pid)) =
         Cardinality({l.ip : l \in {x \in JsonLogs(pid) :
                                      Age(x.date) <= THIRTY_MINUTES}})

\* C12: one window for admission and reporting. The active-device count of
\* getPlaylistByMirrorId equals the one getDeviceAnalytics and the one
\* getAllPlaylists report for the same playlist.
C12_OneWindow ==
  \A p \in playlists :
    /\ ActiveDevices(p.id) = AnalyticsActiveDevices(p.id)
    /\ ActiveDevices(p.id) = ListActiveDevices(p.id)

\* A report would show one active device and one that is registered but
\* expired, or one access inside the window and one outside it.
C12_Witness ==
  \E p \in playlists :
    /\ AnalyticsActiveDevices(p.id) = 1
    /\ ListActiveDevices(p.id) = 1
    /\ \/ dbVariant = SessionsVariant /\ AnalyticsTotalDevices(p.id) = 2
       \/ dbVariant = LogsVariant
          /\ Cardinality({l.ip_address : l \in {x \in LogRows : x.playlist_id = p.id}}) = 2

\* C13: identifier uniqueness. No two stored playlists share a mirror
\* identifier, and creations that ran side by side each yielded a playlist,
\* with distinct identifiers.
C13_IdentifiersUnique ==
  /\ \A p, q \in playlists : p.mirror_id = q.mirror_id => p = q
  /\ \A c1, c2 \in CreateIds :
       (c1 # c2 /\ create[c1].pc = "done" /\ create[c2].pc = "done")
       => /\ create[c1].resp.success /\ create[c2].resp.success
          /\ create[c1].resp.mirror_id # create[c2].resp.mirror_id

\* C14: collision handling. A creation whose drawn identifier is already
\* stored when its INSERT runs still ends in success with a new playlist
\* stored; the collision is not answered with an error.
C14_CollisionRetried ==
  [][\A c \in CreateIds :
       (create[c].pc = "insert" /\ create'[c].pc = "done"
        /\ MirrorTaken(create[c].mirror_id))
       => /\ create'[c].resp.success
          /\ playlists' # playlists]_vars

\* C15: the identifier is immutable. Every stored playlist still has the
\* mirror identifier, and every stored monitor the proxy URL, that its
\* creation handed out.
C15_IdentifierImmutable ==
  /\ \A p \in playlists :
       [kind |-> "playlist", id |-> p.id, url |-> p.mirror_id] \in issued
  /\ \A m \in monitors :
       [kind |-> "monitor", id |-> m.id, url |-> m.proxy_url] \in issued

\* The category the first matching rule gives, the rules taken in the order
\* TV, Tablet, Mobile, PC.
FirstMatch(tv, tablet, mobile, pc, names) ==
  IF tv THEN names[1] ELSE IF tablet THEN names[2]
  ELSE IF mobile THEN names[3] ELSE IF pc THEN names[4] ELSE names[5]

\* C16: rule order. Whenever one of the TV, Tablet, Mobile or PC rules
\* matches the signature, each classifier returns the category of the first
\* rule that matches, in the order TV, Tablet, Mobile, PC.
C16_RuleOrder ==
  LET lc == toLowerCase(userAgent)
  IN /\ \A i \in 1..Len(deviceTypes) :
          (TvTest(lc) \/ TabletTest(lc) \/ MobileTest(lc) \/ PcTest(lc))
          => deviceTypes[i] =
               FirstMatch(TvTest(lc), TabletTest(lc), MobileTest(lc), PcTest(lc),
                          <<"tv", "tablet", "mobile", "pc", "unknown">>)
     /\ \A i \in 1..Len(inlineTypes) :
          (InlineTvTest(userAgent) \/ InlineTabletTest(userAgent, useragent)
             \/ InlineMobileTest(userAgent, useragent) \/ InlinePcTest(userAgent))
          => inlineTypes[i] =
               FirstMatch(InlineTvTest(userAgent),
                          InlineTabletTest(userAgent, useragent),
                          InlineMobileTest(userAgent, useragent),
                          InlinePcTest(userAgent),
                          <<"TV", "Tablet", "Móvil", "PC", "Unknown">>)

\* A signature that matches the TV rule and the tablet, mobile and PC rules
\* as well was classified by both classifiers.
C16_Witness ==
  LET lc == toLowerCase(userAgent)
  IN /\ TvTest(lc) /\ TabletTest(lc) /\ MobileTest(lc) /\ PcTest(lc)
     /\ InlineTvTest(userAgent) /\ InlineMobileTest(userAgent, useragent)
     /\ Len(deviceTypes) > 0 /\ deviceTypes[1] = "tv"
     /\ Len(inlineTypes) > 0 /\ inlineTypes[1] = "TV"

\* C17: fallback. A signature that matches none of the four rules, the
\* empty signature included, is classified as unknown by each classifier.
C17_FallbackUnknown ==
  LET lc == toLowerCase(userAgent)
  IN /\ \A i \in 1..Len(deviceTypes) :
          ~(TvTest(lc) \/ TabletTest(lc) \/ MobileTest(lc) \/ PcTest(lc))
          => deviceTypes[i] = "unknown"
     /\ \A i \in 1..Len(inlineTypes) :
          ~(InlineTvTest(userAgent) \/ InlineTabletTest(userAgent, useragent)
             \/ InlineMobileTest(userAgent, useragent) \/ InlinePcTest(userAgent))
          => inlineTypes[i] \notin {"TV", "Tablet", "Móvil", "PC"}

Occurrences(s, p) ==
  Cardinality({i \in 1..(Len(s) - Len(p) + 1) : SubSeq(s, i, i + Len(p) - 1) = p})

\* The original body without its leading marker.
AfterMarker(b) == SubSeq(b, Len("#EXTM3U") + 1, Len(b))

\* C19: one marker. When the origin body begins with #EXTM3U, the relayed
\* body begins with the monitoring header, whose first line is the only
\* marker in front of the original content: the marker and the header block
\* occur once in the header, and what follows it holds no more markers than
\* the original body held after its own.
C19_OneMarker ==
  \A p \in playlists : \A i \in 1..Len(relayed) :
    StartsWith(body, "#EXTM3U") =>
      /\ StartsWith(relayed[i], monitoredHeader(p))
      /\ Occurrences(monitoredHeader(p), "#EXTM3U") = 1
      /\ Occurrences(relayed[i], "# M3U Sentinel") = 1
      /\ Occurrences(relayed[i], "#EXTM3U") <= Occurrences(body, "#EXTM3U")

\* A body that begins with the marker and a line break was relayed.
C19_Witness ==
  /\ StartsWith(body, "#EXTM3U\n#EXTINF")
  /\ Len(relayed) = 1
  /\ StartsWith(relayed[1], "#EXTM3U\n# M3U Sentinel")

\* C20: the origin body is preserved. The relayed body of a non-empty
\* origin body is the monitoring header followed by the whole remainder of
\* the body after its marker (the line break that ends the marker line may
\* be the one the header supplies) or, without marker, by the whole body.
C20_BodyPreserved ==
  \A p \in playlists : \A i \in 1..Len(relayed) :
    body # "" =>
      IF StartsWith(body, "#EXTM3U")
        THEN \/ relayed[i] = monitoredHeader(p) \o AfterMarker(body)
             \/ /\ StartsWith(AfterMarker(body), "\n")
                /\ relayed[i] = monitoredHeader(p) \o Tail(AfterMarker(body))
        ELSE relayed[i] = monitoredHeader(p) \o body

\* C23: single fetch. No proxy request makes more than one outbound request
\* to the origin; a request whose fetch failed ends with that one attempt.
C23_SingleFetch ==
  \A r \in ReqIds :
    /\ req[r].fetches <= 1
    /\ req[r].fetches = 1 => req[r].pc = "done"

\* A request ended in the error response after its fetch failed.
C23_Witness ==
  \E r \in ReqIds :
    req[r].pc = "done" /\ req[r].resp.kind = "Error" /\ req[r].fetches = 1

\* C24: not-found short-circuit. A request whose identifier matches no
\* stored playlist ends, at the lookup, in the NotFound response, with no
\* outbound fetch made and no access or session record written.
C24_NotFoundShortCircuit ==
  [][\A r \in ReqIds :
       (SelectStep(r) /\ PlaylistByMirror(req[r].mirror) = NoRow)
       => /\ req'[r].pc = "done"
          /\ req'[r].resp = Response("NotFound", 404, 0)
          /\ req'[r].fetches = 0
          /\ access_logs' = access_logs
          /\ connected_devices' = connected_devices]_vars

\* A request ended in NotFound while accesses of other requests are logged.
C24_Witness ==
  \E r \in ReqIds :
    /\ req[r].pc = "done" /\ req[r].resp.kind = "NotFound"
    /\ req[r].fetches = 0
    /\ Len(access_logs) > 0

FetchStep(r) == req[r].pc = "fetch" /\ req'[r].pc = "done"

\* Access rows logged for a (playlist, identity) pair.
LoggedRows(pid, ip) ==
  {l \in LogRows : l.playlist_id = pid /\ l.ip_address = ip}

\* C27: session committed before fetch. When the origin fetch of an
\* admitted request returns (with content or with a failure), the access it
\* registered is already stored, it stays stored, and while it is inside
\* the window the identity is counted as active.
C27_CommittedBeforeFetch ==
  [][\A r \in ReqIds : \A pid \in PlaylistIds : \A ip \in Clients :
       (/\ FetchStep(r) /\ PlaylistExists(pid)
        /\ req[r].playlist.id = pid /\ req[r].ip = ip)
       => /\ LoggedRows(pid, ip) # {}
          /\ LoggedRows(pid, ip)' = LoggedRows(pid, ip)
          /\ (\E l \in LoggedRows(pid, ip) : InsideWindow(l.accessed_at))
             => ip \in CountedIdentities(pid)']_vars

\* C29: sessions are never hard-deleted and can be re-activated. Every step
\* other than the deletion of the playlist keeps every session row, with
\* its first-connected time; a registerDevice update on a session flagged
\* inactive makes that same row active again and reports isNew = false.
C29_NoHardDelete ==
  [][/\ (\A pid \in PlaylistIds : PlaylistExists(pid)')
        => \A d \in connected_devices : \E e \in connected_devices' :
              /\ e.id = d.id
              /\ e.playlist_id = d.playlist_id /\ e.ip_address = d.ip_address
              /\ e.first_connected_at = d.first_connected_at
     /\ \A k \in CallIds :
          WriteStep(k, "update")
          => \A d \in DeviceRows(call[k].pid, call[k].ip) :
               /\ \E e \in connected_devices' :
                    /\ e.id = d.id /\ e.is_active
                    /\ e.first_connected_at = d.first_connected_at
               /\ call'[k].result.success
               /\ ~call'[k].result.isNew]_vars

\* A session past its window is stored, flagged inactive, and a
\* registerDevice call of its identity is about to update it.
C29_Witness ==
  \E k \in CallIds : \E d \in DeviceRows(call[k].pid, call[k].ip) :
    /\ call[k].pc = "update"
    /\ ~d.is_active
    /\ PastWindow(d.last_heartbeat_at)

\* The step in which a request is served that logged its access, that is,
\* one that went on to fetch the origin.
ServedAfterFetch ==
  Len(sent') = Len(sent) + 1 /\ Len(access_logs') = Len(access_logs) + 1

\* The origin fetch failed: it threw, or its body is not text or is empty.
FetchFailed == origin.kind \in {"throw", "object"} \/ body = ""

\* C22: fetch failure is contained. A request whose origin fetch throws
\* (network error, timeout), or returns a body that is not text or is
\* empty, is answered with the synthetic failure playlist, built from the
\* error message alone, and the handler ends with that response.
C22_FetchFailureContained ==
  [][(ServedAfterFetch /\ FetchFailed)
     => LET r == sent'[Len(sent')]
        IN /\ r.type = MpegUrlType
           /\ r.body = IF origin.kind = "throw" THEN ErrorContent(origin.message)
                                                ELSE InvalidContent
           /\ (Len(body) > Len("#EXTM3U\n") => ~Includes(r.body, body))]_vars

\* A request was answered with the failure playlist of a fetch that timed
\* out while the origin had a body to give.
C22_Witness ==
  /\ origin = Origin("throw", "timeout of 30000ms exceeded")
  /\ Len(body) > Len("#EXTM3U\n")
  /\ Len(access_logs) > 0
  /\ \E i \in 1..Len(sent) : sent[i].body = ErrorContent(origin.message)

\* Every response sent so far, by any of the proxy endpoints.
AllSent ==
  {sent[i] : i \in 1..Len(sent)}
    \cup UNION {{m3u[r].sent[i] : i \in 1..Len(m3u[r].sent)} : r \in M3uIds}
    \cup UNION {{stream[r].sent[i] : i \in 1..Len(stream[r].sent)} : r \in StreamIds}

PlaylistTypes == {MpegUrlType, AppleMpegUrlType}

\* C21: every terminal path is playlist-formatted. Every response a proxy
\* endpoint has sent has a playlist content type and a body that begins
\* with the #EXTM3U marker.
C21_PlaylistFormatted ==
  \A r \in AllSent : r.type \in PlaylistTypes /\ StartsWith(r.body, "#EXTM3U")

\* The log of a user before a step is the beginning of its log after it,
\* which has at most one entry more.
Extends(old, new) ==
  /\ Len(new) \in {Len(old), Len(old) + 1}
  /\ SubSeq(new, 1, Len(old)) = old

\* C30: the audit trail is append-only. No step alters or removes an access
\* entry recorded for a user that is still stored; a step adds at most one
\* entry, at the end.
C30_AppendOnly ==
  [][\A u \in users : \A v \in users' :
       u.id = v.id => Extends(u.access_logs, v.access_logs)]_vars

\* The step in which the lookup of a /stream request returns.
StreamLookupStep(r) == stream[r].pc = "lookup" /\ stream'[r].pc # "lookup"

\* C25: exact identifier resolution. A /stream request resolves to a
\* monitor only when the requested token (with or without the .m3u
\* extension) is the token of that monitor's issued proxy URL; otherwise
\* it is answered 404.
C25_ExactResolution ==
  [][\A r \in StreamIds : StreamLookupStep(r) =>
       LET t == RemoveFirst(stream[r].token, ".m3u")
       IN /\ stream'[r].pc = "insert"
             => \E m \in monitors : /\ m.id = stream'[r].monitor
                                    /\ m.proxy_url = ProxyUrl(t)
          /\ (~\E m \in monitors : m.is_active = 1 /\ m.proxy_url = ProxyUrl(t))
             => /\ stream'[r].pc = "done"
                /\ stream'[r].sent[1].status \in {404, 502}]_vars

\* The stage changes a proxy request can make: Resolving is the lookup
\* ("cleanup", "select"), Admitting the cap check and the access log
\* ("select", "log"), then Fetching ("fetch") and Responding ("done").
StageOrder ==
  {<<"idle", "cleanup">>, <<"idle", "select">>, <<"done", "cleanup">>,
   <<"done", "select">>, <<"cleanup", "select">>, <<"select", "log">>,
   <<"select", "done">>, <<"log", "fetch">>, <<"log", "done">>,
   <<"fetch", "done">>}

C33_MaxDevicesInRange ==
  \A p \in playlists : p.max_devices >= 1 /\ p.max_devices <= 10

\* A create request carrying 11 was refused and a stored playlist got the
\* default for a request that carried none.
C33_Witness ==
  /\ \E c \in CreateIds : /\ create[c].pc = "done"
                          /\ create[c].max_devices = 11
                          /\ ~create[c].resp.success
  /\ \E p \in playlists : p.max_devices = DEFAULT_MAX_DEVICES

\* C31: cache-disabling headers. Every response a proxy endpoint has sent,
\* on the success path and on every error path, carries a Cache-Control
\* header that disables caching.
C31_CacheDisabled ==
  \A r \in AllSent :
    Includes(r.cache_control, "no-cache") \/ Includes(r.cache_control, "no-store")

\* README, Monitoreo: a device is "active" if it accessed in the last 5
\* minutes.
DOCUMENTED_ACTIVE_MINUTES == 5

\* Ages, in minutes, of the records stored for an identity of a playlist:
\* its access rows in the access_logs variant, its session otherwise.
RecordAges(pid, ip) ==
  IF dbVariant = LogsVariant
    THEN {Age(l.accessed_at) : l \in LoggedRows(pid, ip)}
    ELSE {Age(d.last_heartbeat_at) : d \in DeviceRows(pid, ip)}

\* C32: documented active window. An identity is counted as active exactly
\* when one of its accesses is at most the 5 minutes old that the README
\* states, which is so only if the window of the counting code is that one.
C32_DocumentedWindow ==
  \A pid \in PlaylistIds : \A ip \in Clients :
       PlaylistExists(pid) =>
         (ip \in CountedIdentities(pid)
            <=> \E a \in RecordAges(pid, ip) : a <= DOCUMENTED_ACTIVE_MINUTES)

\* The step in which the UPDATE of request r's logAccess commits.
LogWriteStep(r) == m3u[r].pc = "logWrite" /\ m3u'[r].pc = "fetch"

\* C38: no lost access under concurrency. When the UPDATE of a logAccess
\* call commits for a stored user whose log is below the trim length, every
\* entry stored before is still stored and the log is one entry longer,
\* the new entry being the last.
C38_NoLostAccess ==
  [][\A r \in M3uIds : \A u \in users : \A v \in users' :
       (LogWriteStep(r) /\ u.id = m3u[r].id /\ v.id = u.id
          /\ Len(u.access_logs) < KEEP_LAST)
       => /\ Len(v.access_logs) = Len(u.access_logs) + 1
          /\ \A i \in 1..Len(u.access_logs) :
               \E j \in 1..Len(v.access_logs) : v.access_logs[j] = u.access_logs[i]
          /\ v.access_logs[Len(v.access_logs)].ip = m3u[r].ip]_vars

\* The entries of a JSON log, as a set.
Entries(accessLogs) == {accessLogs[i] : i \in 1..Len(accessLogs)}

\* Requests whose db.logAccess call has returned for a stored user: those
\* fetching the origin and those that answered after fetching it.
LoggedRequests(id) ==
  {r \in M3uIds : /\ m3u[r].id = id
                  /\ \/ m3u[r].pc = "fetch"
                     \/ m3u[r].pc = "done" /\ m3u[r].fetches = 1}

\* Addresses that accessed the mirror URL of a user inside the window: those
\* of the entries stored and those of the requests that logged an access
\* (every access of a behaviour is made at the same instant).
AccessedIps(id) ==
  {l.ip : l \in {x \in Entries(UserRow(id).access_logs) :
                   x.date >= now - THIRTY_MINUTES}}
    \cup {m3u[r].ip : r \in LoggedRequests(id)}

\* C39: active connections are exact. The active_connections computed for
\* a stored user is the number of distinct addresses that accessed its
\* mirror URL inside the 30-minute window.
C39_ActiveConnectionsExact ==
  \A u \in users :
    calculateActiveConnections(Entries(u.access_logs))
      = Cardinality(AccessedIps(u.id))

\* Rows of a monitor, inside the 24-hour window, that record a check whose
\* request got a successful response.
SuccessfulChecks(id) ==
  {i \in Metrics24h(id) : /\ metrics[i].error_message = ""
                          /\ metrics[i].status_code \in 200..299}

\* C40: successful checks count as online. The uptime counter of a monitor
\* is the number of its checks that got a successful response: every
\* successful check is counted and every failed one is not.
C40_SuccessCountsOnline ==
  \A id \in MonitorIds : Uptime24h(id) = Cardinality(SuccessfulChecks(id))

\* C36: one device per address. The active-device count of a playlist never
\* exceeds the number of distinct addresses admitted inside the window,
\* whatever user-agent signatures their requests carried.
C36_OneDevicePerAddress ==
  \A p \in playlists : ActiveDevices(p.id) <= Cardinality(AdmittedInside(p.id))

\* Two admitted requests of one address with different signatures are
\* logged, and the playlist counts one active device.
C36_Witness ==
  /\ dbVariant = LogsVariant
  /\ \E i, j \in 1..Len(access_logs) :
       /\ access_logs[i].playlist_id = access_logs[j].playlist_id
       /\ access_logs[i].ip_address = access_logs[j].ip_address
       /\ access_logs[i].user_agent # access_logs[j].user_agent
       /\ ActiveDevices(access_logs[i].playlist_id) = 1

\* C37: deletion ends service. No access row and no session of a deleted
\* playlist is stored, and a request whose lookup runs after the deletion
\* of the playlist of its mirror identifier ends in the NotFound response
\* without a fetch.
C37_DeletionEndsService ==
  /\ [](/\ \A l \in LogRows : PlaylistExists(l.playlist_id)
        /\ \A d \in connected_devices : PlaylistExists(d.playlist_id))
  /\ [][\A r \in ReqIds :
          (SelectStep(r) /\ ~\E p \in playlists : p.mirror_id = req[r].mirror)
          => /\ req'[r].resp.kind = "NotFound"
             /\ req'[r].resp.status = 404
             /\ req'[r].fetches = 0]_vars

\* The playlist is deleted, a request for its mirror identifier was answered
\* NotFound, and the session it once had is gone with it.
C37_Witness ==
  /\ playlists = {}
  /\ \E r \in ReqIds : req[r].pc = "done" /\ req[r].resp.kind = "NotFound"
  /\ nextDeviceId > 1
  /\ connected_devices = {}
  /\ access_logs = <<>>

\* The records the lookup of a playlist counts: access rows in the
\* access_logs variant, sessions in the connected_devices variant.
RecordTimes(pid) ==
  IF dbVariant = LogsVariant
    THEN {l.accessed_at : l \in {x \in LogRows : x.playlist_id = pid}}
    ELSE {d.last_heartbeat_at : d \in {x \in connected_devices : x.playlist_id = pid}}

\* C35: cap clears by expiry. When a request's lookup reads the count of a
\* stored playlist all of whose access records and sessions are older than
\* the window, the request passes the cap check and goes on to be logged
\* and fetched.
C35_CapClearsByExpiry ==
  [][\A r \in ReqIds :
       LET p == PlaylistByMirror(req[r].mirror)
       IN (/\ SelectStep(r)
           /\ p # NoRow
           /\ \A t \in RecordTimes(p.id) : PastWindow(t))
          => req'[r].pc = "log"]_vars

\* A step of a proxy request for playlist a, or of a registerDevice call
\* (its sweep included) for playlist a.
ActsOn(a) ==
  \/ \E r \in ReqIds :
       /\ InFlight(req[r])
       /\ req'[r] # req[r]
       /\ PlaylistByMirror(req[r].mirror) # NoRow
       /\ PlaylistByMirror(req[r].mirror).id = a
  \/ \E k \in CallIds :
       /\ CallInFlight(call[k])
       /\ call'[k] # call[k]
       /\ call[k].pid = a

SessionsOf(b) == {d \in connected_devices : d.playlist_id = b}
AccessesOf(b) == {l \in LogRows : l.playlist_id = b}

\* C34: playlist isolation. A step of a proxy request or registerDevice
\* call for playlist A, the expiry sweep it runs included, leaves the
\* sessions, the access records and the active-device count (hence the
\* admission outcome) of every other playlist B as they were.
C34_PlaylistIsolation ==
  [][\A a, b \in IsoPlaylistIds :
       (a # b /\ ActsOn(a))
       => /\ SessionsOf(b)' = SessionsOf(b)
          /\ AccessesOf(b)' = AccessesOf(b)
          /\ ActiveDevices(b)' = ActiveDevices(b)]_vars
====
